---- MODULE Spec2Model ----
(***************************************************************************)
(* Batch orchestration and knowledge-aggregation engine of the backend     *)
(* (backend/src/processor.ts, backend/src/agent.ts).                       *)
(*                                                                         *)
(* One step of the model is one run-to-completion segment of the Node.js   *)
(* event loop: the code between two suspension points (await) of           *)
(* startProcessing / runBatch, a setInterval callback, or the settling of  *)
(* a capability call that nobody awaits any more.                          *)
(*                                                                         *)
(* Conventions                                                             *)
(*   - an optional value (T | null, T | undefined) is a sequence of        *)
(*     length 0 or 1: NULL or Some(v);                                     *)
(*   - a JavaScript Map is a sequence of entries in insertion order with   *)
(*     pairwise distinct keys;                                             *)
(*   - confidences are kept in hundredths (0.75 is 75);                    *)
(*   - a record of the source is identified by its position in the source; *)
(*   - new Date().toISOString() is the token Now.                          *)
(***************************************************************************)
EXTENDS Integers, Sequences, FiniteSets, TLC

(* ---------------------------------------------------------------------- *)
(* Bounds of the model                                                     *)
(* ---------------------------------------------------------------------- *)
\* largest BATCH_SIZE the environment configures
MaxBatchSize == 2
\* largest CSV_RECORD_LIMIT the environment configures
MaxLimit == 3
\* largest number of rows in the record source
MaxSource == 4
\* number of accepted startProcessing calls that are explored
MaxRuns == 2
\* largest number of capability calls left in flight by failed fan-outs
MaxOrphans == 1
\* the same three bounds for the behaviours explored under fairness
MaxLiveLimit == 2
MaxLiveRuns == 1
MaxLiveOrphans == 1
\* the same for the specification that explores every routing decision
MaxRouteLimit == 3
MaxRouteRuns == 1
\* the same for the specifications that explore the data of the parsing,
\* memory, audit and synthesis results
MaxDataLimit == 3
MaxDataRuns == 1
MaxPeopleBatch == 1

(* ---------------------------------------------------------------------- *)
(* Generic helpers                                                         *)
(* ---------------------------------------------------------------------- *)
NULL == <<>>
Some(v) == <<v>>
Now == Some("now")

Min(a, b) == IF a <= b THEN a ELSE b

\* Array.prototype.slice(0, n)
Take(s, n) == SubSeq(s, 1, Min(n, Len(s)))
\* splice that leaves the last record it took in the array
DropKeepsLast(s, n) == SubSeq(s, Min(n, Len(s)), Len(s))
\* splice that removes one record more than it returns
DropSkips(s, n) == SubSeq(s, Min(n, Len(s)) + 2, Len(s))
\* what remains of the array after splice(0, n)
Drop(s, n) == SubSeq(s, Min(n, Len(s)) + 1, Len(s))

Range(s) == {s[i] : i \in 1..Len(s)}

\* Array.prototype.includes
Includes(s, x) == x \in Range(s)

\* Map.prototype.has on a map kept as a sequence of entries
Has(map, k, key) == \E i \in 1..Len(map) : map[i][key] = k

\* position of key k in the map (the key is present)
IndexOf(map, k, key) == CHOOSE i \in 1..Len(map) : map[i][key] = k

\* Map.prototype.set: an existing key keeps its place, a new key goes last
MapSet(map, k, e, key) ==
  IF Has(map, k, key) THEN [map EXCEPT ![IndexOf(map, k, key)] = e]
  ELSE Append(map, e)

(* ---------------------------------------------------------------------- *)
(* Types (backend/src/types.ts)                                            *)
(* ---------------------------------------------------------------------- *)
\* the key fields of the two indexes
emailOf == "email"
topicOf == "topic"

\* the zero value of ProcessingStatus
IdleStatus ==
  [status |-> "idle", startedAt |-> NULL, completedAt |-> NULL,
   lastBatchAt |-> NULL, queued |-> 0, processed |-> 0, results |-> 0,
   errors |-> 0, batches |-> 0, message |-> NULL]

\* Object.entries(triage.runAgents) enumerates the keys in schema order
AgentKeys == <<"knowledge", "stakeholder", "memory", "critic">>

\* the three stages of the concurrent fan-out
FanOutStages == {"knowledge", "stakeholder", "memory"}

\* the default contributions of stages that did not run
EmptyKnowledge == [topics |-> <<>>, decisions |-> <<>>, facts |-> <<>>]
EmptyStakeholder == [stakeholders |-> <<>>]
EmptyMemory == [updates |-> <<>>]
EmptyCritic == [conflicts |-> <<>>]

\* existingDecisions keeps the ten newest decisions
MemoryDecisionWindow == 10

\* confidences written by applyOutputs, in hundredths
PlaceholderConfidence == 50
ConflictConfidence == 40
NewConfidence == 75
UpdateConfidence == 60

(* ---------------------------------------------------------------------- *)
(* Knowledge aggregation store: applyOutputs                               *)
(* ---------------------------------------------------------------------- *)
\* lines 496-510: one participant of one parsed message
countParticipant(people, email) ==
  IF email = "" THEN people
  ELSE IF ~Has(people, email, emailOf)
       THEN Append(people, [email |-> email, name |-> NULL, inferredRole |-> NULL,
                            messageCount |-> 1, topics |-> <<>>])
       ELSE LET i == IndexOf(people, email, emailOf)
            IN [people EXCEPT ![i].messageCount = @ + 1]

RECURSIVE countParticipants(_, _)
countParticipants(people, participants) ==
  IF participants = <<>> THEN people
  ELSE countParticipants(countParticipant(people, Head(participants)),
                         Tail(participants))

\* the loop of lines 494-511 started from an empty index: the entries of
\* earlier batches are dropped
RECURSIVE applyIngestionRebuilds(_, _)
applyIngestionRebuilds(people, ingestionOutputs) ==
  IF ingestionOutputs = <<>> THEN <<>>
  ELSE LET entry == ingestionOutputs[Len(ingestionOutputs)]
       IN countParticipants(
            applyIngestionRebuilds(people,
              SubSeq(ingestionOutputs, 1, Len(ingestionOutputs) - 1)),
            <<entry.from>> \o entry.to)

\* the loop of lines 494-511 over the senders alone
RECURSIVE applyIngestionSendersOnly(_, _)
applyIngestionSendersOnly(people, ingestionOutputs) ==
  IF ingestionOutputs = <<>> THEN people
  ELSE applyIngestionSendersOnly(
         countParticipants(people, <<Head(ingestionOutputs).from>>),
         Tail(ingestionOutputs))

\* lines 494-511: sender and recipients of every parsed message
RECURSIVE applyIngestion(_, _)
applyIngestion(people, ingestionOutputs) ==
  IF ingestionOutputs = <<>> THEN people
  ELSE LET entry == Head(ingestionOutputs)
       IN applyIngestion(countParticipants(people, <<entry.from>> \o entry.to),
                         Tail(ingestionOutputs))

\* the loop of lines 513-526 writing a fresh entry over an indexed person
RECURSIVE applyStakeholdersRewrites(_, _)
applyStakeholdersRewrites(people, stakeholders) ==
  IF stakeholders = <<>> THEN people
  ELSE LET s == Head(stakeholders)
           next ==
             IF ~Has(people, s.email, emailOf)
             THEN Append(people, [email |-> s.email, name |-> NULL,
                                  inferredRole |-> Some(s.importance),
                                  messageCount |-> 0, topics |-> <<>>])
             ELSE LET i == IndexOf(people, s.email, emailOf)
                  IN [people EXCEPT ![i].inferredRole = Some(s.importance),
                                    ![i].messageCount = 0]
       IN applyStakeholdersRewrites(next, Tail(stakeholders))

\* the loop of lines 513-526 creating an entry with a count of one
RECURSIVE applyStakeholdersCounts(_, _)
applyStakeholdersCounts(people, stakeholders) ==
  IF stakeholders = <<>> THEN people
  ELSE LET s == Head(stakeholders)
           next ==
             IF ~Has(people, s.email, emailOf)
             THEN Append(people, [email |-> s.email, name |-> NULL,
                                  inferredRole |-> Some(s.importance),
                                  messageCount |-> 1, topics |-> <<>>])
             ELSE LET i == IndexOf(people, s.email, emailOf)
                  IN [people EXCEPT ![i].inferredRole = Some(s.importance)]
       IN applyStakeholdersCounts(next, Tail(stakeholders))

\* lines 513-526: stakeholders named by the stakeholder stage
RECURSIVE applyStakeholders(_, _)
applyStakeholders(people, stakeholders) ==
  IF stakeholders = <<>> THEN people
  ELSE LET s == Head(stakeholders)
           next ==
             IF ~Has(people, s.email, emailOf)
             THEN Append(people, [email |-> s.email, name |-> NULL,
                                  inferredRole |-> Some(s.importance),
                                  messageCount |-> 0, topics |-> <<>>])
             ELSE LET i == IndexOf(people, s.email, emailOf)
                  IN [people EXCEPT ![i].inferredRole = Some(s.importance)]
       IN applyStakeholders(next, Tail(stakeholders))

\* lines 528-539: placeholder entries for topics that are not indexed yet
RECURSIVE applyTopics(_, _)
applyTopics(topics, names) ==
  IF names = <<>> THEN topics
  ELSE LET t == Head(names)
           next ==
             IF ~Has(topics, t, topicOf)
             THEN Append(topics, [topic |-> t,
                                  latestSummary |-> "Awaiting memory classification.",
                                  confidence |-> PlaceholderConfidence,
                                  isNew |-> TRUE, isConflicting |-> FALSE,
                                  lastUpdatedAt |-> Now])
             ELSE topics
       IN applyTopics(next, Tail(names))

\* lines 542-551 with one confidence for every change type
topicEntryOfOneConfidence(update) ==
  [topic |-> update.topic,
   latestSummary |-> update.summary,
   confidence |-> UpdateConfidence,
   isNew |-> update.changeType = "new",
   isConflicting |-> update.changeType = "conflict",
   lastUpdatedAt |-> Now]

\* lines 542-551: the TopicIndexEntry derived from one MemoryUpdate
topicEntryOf(update) ==
  LET isConflicting == update.changeType = "conflict"
      isNew == update.changeType = "new"
  IN [topic |-> update.topic,
      latestSummary |-> update.summary,
      confidence |-> IF isConflicting THEN ConflictConfidence
                     ELSE IF isNew THEN NewConfidence ELSE UpdateConfidence,
      isNew |-> isNew, isConflicting |-> isConflicting,
      lastUpdatedAt |-> Now]

\* the loop of lines 541-559 merging the conflict flag of the entry it
\* overwrites into the new one
RECURSIVE applyMemoryTopicsMerges(_, _)
applyMemoryTopicsMerges(topics, updates) ==
  IF updates = <<>> THEN topics
  ELSE LET u == Head(updates)
           e == topicEntryOf(u)
           merged ==
             IF Has(topics, u.topic, topicOf)
             THEN [e EXCEPT !.isConflicting =
                     @ \/ topics[IndexOf(topics, u.topic, topicOf)].isConflicting]
             ELSE e
       IN applyMemoryTopicsMerges(MapSet(topics, u.topic, merged, topicOf),
                                  Tail(updates))

\* lines 541-559, the topic index: every update overwrites or creates its key
RECURSIVE applyMemoryTopics(_, _)
applyMemoryTopics(topics, updates) ==
  IF updates = <<>> THEN topics
  ELSE LET u == Head(updates)
       IN applyMemoryTopics(MapSet(topics, u.topic, topicEntryOf(u), topicOf),
                            Tail(updates))

\* the change log of lines 541-559 with push in place of unshift
RECURSIVE applyMemoryLogAppends(_, _)
applyMemoryLogAppends(log, updates) ==
  IF updates = <<>> THEN log
  ELSE applyMemoryLogAppends(Append(log, Head(updates)), Tail(updates))

\* lines 541-559, the change log: every update is unshifted, newest first
RECURSIVE applyMemoryLog(_, _)
applyMemoryLog(log, updates) ==
  IF updates = <<>> THEN log
  ELSE applyMemoryLog(<<Head(updates)>> \o log, Tail(updates))

\* the loop of lines 561-567 with an upsert: a topic that is not indexed
\* gets an entry
RECURSIVE applyConflictTopicsCreates(_, _)
applyConflictTopicsCreates(topics, found) ==
  IF found = <<>> THEN topics
  ELSE LET c == Head(found)
           next ==
             IF Has(topics, c.topic, topicOf)
             THEN [topics EXCEPT ![IndexOf(topics, c.topic, topicOf)].isConflicting = TRUE]
             ELSE Append(topics, [topic |-> c.topic,
                                  latestSummary |-> c.description,
                                  confidence |-> ConflictConfidence,
                                  isNew |-> TRUE, isConflicting |-> TRUE,
                                  lastUpdatedAt |-> Now])
       IN applyConflictTopicsCreates(next, Tail(found))

\* the loop of lines 561-567 taking the new flag off the topic it flags
RECURSIVE applyConflictTopicsClearsNew(_, _)
applyConflictTopicsClearsNew(topics, found) ==
  IF found = <<>> THEN topics
  ELSE LET c == Head(found)
           next ==
             IF Has(topics, c.topic, topicOf)
             THEN [topics EXCEPT ![IndexOf(topics, c.topic, topicOf)].isConflicting = TRUE,
                                 ![IndexOf(topics, c.topic, topicOf)].isNew = FALSE]
             ELSE topics
       IN applyConflictTopicsClearsNew(next, Tail(found))

\* lines 561-567, the topic index: an indexed topic is flagged conflicting
RECURSIVE applyConflictTopics(_, _)
applyConflictTopics(topics, found) ==
  IF found = <<>> THEN topics
  ELSE LET c == Head(found)
           next ==
             IF Has(topics, c.topic, topicOf)
             THEN [topics EXCEPT ![IndexOf(topics, c.topic, topicOf)].isConflicting = TRUE]
             ELSE topics
       IN applyConflictTopics(next, Tail(found))

\* lines 561-567, the conflict log: topic and description, newest first
RECURSIVE applyConflictLog(_, _)
applyConflictLog(log, found) ==
  IF found = <<>> THEN log
  ELSE LET c == Head(found)
       IN applyConflictLog(<<[topic |-> c.topic, description |-> c.description]>> \o log,
                           Tail(found))

\* lines 575-584 with one edge per parsed message, to its first recipient
RECURSIVE flowEdgesFirstRecipient(_, _)
flowEdgesFirstRecipient(ingestionOutputs, knowledge) ==
  IF ingestionOutputs = <<>> THEN <<>>
  ELSE LET entry == Head(ingestionOutputs)
           label == IF knowledge.topics # <<>> THEN knowledge.topics[1] ELSE "general"
       IN [i \in 1..Min(1, Len(entry.to)) |->
             [from |-> entry.from, to |-> entry.to[i], topic |-> label,
              intent |-> "inform"]]
          \o flowEdgesFirstRecipient(Tail(ingestionOutputs), knowledge)

\* lines 575-584: one edge per recipient of each parsed message
RECURSIVE flowEdges(_, _)
flowEdges(ingestionOutputs, knowledge) ==
  IF ingestionOutputs = <<>> THEN <<>>
  ELSE LET entry == Head(ingestionOutputs)
           label == IF knowledge.topics # <<>> THEN knowledge.topics[1] ELSE "general"
       IN [i \in 1..Len(entry.to) |->
             [from |-> entry.from, to |-> entry.to[i], topic |-> label,
              intent |-> "inform"]]
          \o flowEdges(Tail(ingestionOutputs), knowledge)

\* the store as one value: the two indexes, the four logs, recommendations
StoreOf(people, topics, updates, found, decisions, flow, recs) ==
  [peopleIndex |-> people, topicIndex |-> topics, knowledgeUpdates |-> updates,
   conflicts |-> found, decisionLog |-> decisions, informationFlow |-> flow,
   recommendations |-> recs]

\* what resetState leaves in the store
EmptyStore == StoreOf(<<>>, <<>>, <<>>, <<>>, <<>>, <<>>, NULL)

\* lines 477-593 with the conflicts of the audit stage applied to the topic
\* index before the events of the memory stage
applyOutputsAuditFirst(st, ingestionOutputs, knowledge, stakeholder, memory, critic, coordinator) ==
  StoreOf(
    applyStakeholders(applyIngestion(st.peopleIndex, ingestionOutputs),
                      stakeholder.stakeholders),
    applyMemoryTopics(
      applyConflictTopics(applyTopics(st.topicIndex, knowledge.topics), critic.conflicts),
      memory.updates),
    applyMemoryLog(st.knowledgeUpdates, memory.updates),
    applyConflictLog(st.conflicts, critic.conflicts),
    knowledge.decisions \o st.decisionLog,
    flowEdges(ingestionOutputs, knowledge) \o st.informationFlow,
    Some(coordinator))

\* line 586 keeping the recommendations the store already holds
applyOutputsKeepsRecommendations(st, ingestionOutputs, knowledge, stakeholder, memory, critic, coordinator) ==
  StoreOf(
    applyStakeholders(applyIngestion(st.peopleIndex, ingestionOutputs),
                      stakeholder.stakeholders),
    applyConflictTopics(
      applyMemoryTopics(applyTopics(st.topicIndex, knowledge.topics), memory.updates),
      critic.conflicts),
    applyMemoryLog(st.knowledgeUpdates, memory.updates),
    applyConflictLog(st.conflicts, critic.conflicts),
    knowledge.decisions \o st.decisionLog,
    flowEdges(ingestionOutputs, knowledge) \o st.informationFlow,
    IF st.recommendations = NULL THEN Some(coordinator) ELSE st.recommendations)

\* lines 477-593: one batch's outputs applied to the store st
applyOutputs(st, ingestionOutputs, knowledge, stakeholder, memory, critic, coordinator) ==
  StoreOf(
    applyStakeholders(applyIngestion(st.peopleIndex, ingestionOutputs),
                      stakeholder.stakeholders),
    applyConflictTopics(
      applyMemoryTopics(applyTopics(st.topicIndex, knowledge.topics), memory.updates),
      critic.conflicts),
    applyMemoryLog(st.knowledgeUpdates, memory.updates),
    applyConflictLog(st.conflicts, critic.conflicts),
    knowledge.decisions \o st.decisionLog,
    flowEdges(ingestionOutputs, knowledge) \o st.informationFlow,
    Some(coordinator))

(* ---------------------------------------------------------------------- *)
(* Run snapshot: buildAgentSnapshot                                        *)
(* ---------------------------------------------------------------------- *)
\* lines 198-204: the names whose routing flag is set, and the others
selectedListOf(runAgents) == SelectSeq(AgentKeys, LAMBDA k : runAgents[k])
skippedListOf(runAgents) == SelectSeq(AgentKeys, LAMBDA k : ~runAgents[k])

\* lines 364-400: the milestones of one batch, in order
timelineOf(selectedAgents, knowledge, memory, critic, coordinator) ==
  <<[timestamp |-> Now, label |-> "Triage", detail |-> <<selectedAgents>>]>>
  \o (IF Len(knowledge.topics) > 0 \/ Len(knowledge.decisions) > 0
      THEN <<[timestamp |-> Now, label |-> "Knowledge",
              detail |-> <<Len(knowledge.topics), Len(knowledge.decisions)>>]>>
      ELSE <<>>)
  \o (IF Len(memory.updates) > 0
      THEN <<[timestamp |-> Now, label |-> "Memory",
              detail |-> <<Len(memory.updates)>>]>>
      ELSE <<>>)
  \o (IF Len(critic.conflicts) > 0
      THEN <<[timestamp |-> Now, label |-> "Critic",
              detail |-> <<Len(critic.conflicts)>>]>>
      ELSE <<>>)
  \o <<[timestamp |-> Now, label |-> "Coordinator",
        detail |-> <<Len(coordinator.priorityItems)>>]>>

\* lines 428-429: status and reason of a stage that triage selects or skips
ranOrSkipped(selectedAgents, k) ==
  IF Includes(selectedAgents, k) THEN "ran" ELSE "skipped"
reasonOf(selectedAgents, k) ==
  IF Includes(selectedAgents, k) THEN Some("Selected by triage")
  ELSE Some("Skipped by triage")

\* line 452 without the test of the routing flag
criticStatusOfAnyRoute(selectedAgents, critic) ==
  IF Len(critic.conflicts) > 0 THEN "conflict" ELSE "ran"

\* line 452: the audit stage reports conflict only when selected
criticStatusOf(selectedAgents, critic) ==
  IF Includes(selectedAgents, "critic")
  THEN (IF Len(critic.conflicts) > 0 THEN "conflict" ELSE "ran")
  ELSE "skipped"

\* lines 402-465: the per-stage entries of the snapshot
agentsOf(batchNumber, triageReasoning, selectedAgents, knowledge, stakeholder, memory, critic, coordinator) ==
  <<[name |-> "Ingestion", status |-> "ran", reason |-> NULL, timestamp |-> Now,
     output |-> [sample |-> "Parsed email metadata", count |-> batchNumber]],
    [name |-> "Triage", status |-> "ran", reason |-> Some(triageReasoning),
     timestamp |-> Now,
     output |-> [runAgents |-> [k \in Range(AgentKeys) |-> Includes(selectedAgents, k)],
                 reasoning |-> triageReasoning]],
    [name |-> "Knowledge", status |-> ranOrSkipped(selectedAgents, "knowledge"),
     reason |-> reasonOf(selectedAgents, "knowledge"), timestamp |-> Now,
     output |-> knowledge],
    [name |-> "Stakeholder", status |-> ranOrSkipped(selectedAgents, "stakeholder"),
     reason |-> reasonOf(selectedAgents, "stakeholder"), timestamp |-> Now,
     output |-> stakeholder],
    [name |-> "Memory", status |-> ranOrSkipped(selectedAgents, "memory"),
     reason |-> reasonOf(selectedAgents, "memory"), timestamp |-> Now,
     output |-> memory],
    [name |-> "Critic", status |-> criticStatusOf(selectedAgents, critic),
     reason |-> reasonOf(selectedAgents, "critic"), timestamp |-> Now,
     output |-> critic],
    [name |-> "Coordinator", status |-> "ran", reason |-> NULL, timestamp |-> Now,
     output |-> coordinator]>>

\* lines 340-475
buildAgentSnapshot(batchNumber, triageReasoning, selectedAgents, skippedAgents, knowledge, stakeholder, memory, critic, coordinator) ==
  [batchNumber |-> batchNumber,
   agents |-> agentsOf(batchNumber, triageReasoning, selectedAgents,
                       knowledge, stakeholder, memory, critic, coordinator),
   triageReasoning |-> triageReasoning,
   selectedAgents |-> selectedAgents,
   skippedAgents |-> skippedAgents,
   timeline |-> timelineOf(selectedAgents, knowledge, memory, critic, coordinator)]

(* ---------------------------------------------------------------------- *)
(* State                                                                   *)
(* ---------------------------------------------------------------------- *)
VARIABLES
  batchSize,            \* BATCH_SIZE, read from the environment at load
  limit,                \* RECORD_LIMIT, read from the environment at load
  status,               \* ProcessingStatus
  queue,                \* pending records
  knowledgeUpdates,     \* knowledge-change log, newest first
  informationFlow,      \* information-flow log, newest first
  conflicts,            \* conflict log, newest first
  decisionLog,          \* decision log, newest first
  recommendations,      \* CoordinatorOutput | null
  latestAgentSnapshot,  \* AgentRunSnapshot | null
  peopleIndex,          \* Map<string, PersonIndexEntry>
  topicIndex,           \* Map<string, TopicIndexEntry>
  batchTimer,           \* handle of the interval, or null
  batchInProgress,      \* the overlap guard
  intervals,            \* the intervals registered with the event loop
  starting,             \* where the accepted startProcessing call is suspended
  active,               \* the runBatch invocations suspended on a capability
  orphans,              \* capability calls in flight that no invocation awaits
  returned,             \* the status a startProcessing call returns in this step, or null
  event,                \* the handler that ran last
  runs,                 \* history: accepted startProcessing calls
  loaded,               \* history: records loaded by the current run, or null
  handed,               \* history: the slices the current run handed out
  applied               \* history: the outputs the current run applied

storeVars == <<knowledgeUpdates, informationFlow, conflicts, decisionLog,
               recommendations, peopleIndex, topicIndex>>

vars == <<batchSize, limit, status, queue, knowledgeUpdates, informationFlow,
          conflicts, decisionLog, recommendations, latestAgentSnapshot,
          peopleIndex, topicIndex, batchTimer, batchInProgress, intervals,
          starting, active, orphans, returned, event, runs, loaded, handed,
          applied>>

\* the store in the current state
Store == StoreOf(peopleIndex, topicIndex, knowledgeUpdates, conflicts,
                 decisionLog, informationFlow, recommendations)

\* lines 56-77, the store part
storeBecomes(st) ==
  /\ peopleIndex' = st.peopleIndex
  /\ topicIndex' = st.topicIndex
  /\ knowledgeUpdates' = st.knowledgeUpdates
  /\ conflicts' = st.conflicts
  /\ decisionLog' = st.decisionLog
  /\ informationFlow' = st.informationFlow
  /\ recommendations' = st.recommendations

\* lines 79-81
getStatus(st) == st

(* ---------------------------------------------------------------------- *)
(* Capability results explored by Spec                                     *)
(* ---------------------------------------------------------------------- *)
\* results of the parsing capability (IngestionSchema)
IngestionResults ==
  {[from |-> "a", to |-> <<"b">>, timestamp |-> "t", body |-> "x"]}

\* results of the routing capability (TriageSchema)
TriageResults ==
  {[runAgents |-> [k \in Range(AgentKeys) |-> k \in sel], reasoning |-> "why"] :
     sel \in {{}, {"knowledge", "stakeholder", "memory", "critic"}}}

\* results of the analysis capability (KnowledgeSchema)
KnowledgeResults ==
  {[topics |-> <<"t1">>, decisions |-> <<"d1">>, facts |-> <<"f1">>]}

\* results of the stakeholder capability (StakeholderSchema)
StakeholderResults ==
  {[stakeholders |-> <<[email |-> "c", importance |-> "high", reason |-> "r"]>>]}

\* results of the memory capability (MemorySchema)
MemoryResults ==
  {[updates |-> <<[topic |-> "t1", changeType |-> "update", summary |-> "s1"]>>]}

\* results of the audit capability (CriticSchema)
CriticResults ==
  {[conflicts |-> <<[topic |-> "t2", description |-> "x", severity |-> "low"]>>]}

\* results of the synthesis capability (CoordinatorSchema)
CoordinatorResults ==
  {[executiveBrief |-> "brief", notify |-> <<"a">>, priorityItems |-> <<"p1">>]}

\* the results a fan-out stage can return
FanOutResults(stage) ==
  CASE stage = "knowledge" -> KnowledgeResults
    [] stage = "stakeholder" -> StakeholderResults
    [] stage = "memory" -> MemoryResults

(* ---------------------------------------------------------------------- *)
(* Initial state: the module has been loaded, nothing was started          *)
(* ---------------------------------------------------------------------- *)
Init ==
  /\ batchSize \in 1..MaxBatchSize
  /\ limit \in 1..MaxLimit
  /\ status = IdleStatus
  /\ queue = <<>>
  /\ knowledgeUpdates = <<>>
  /\ informationFlow = <<>>
  /\ conflicts = <<>>
  /\ decisionLog = <<>>
  /\ recommendations = NULL
  /\ latestAgentSnapshot = NULL
  /\ peopleIndex = <<>>
  /\ topicIndex = <<>>
  /\ batchTimer = NULL
  /\ batchInProgress = FALSE
  /\ intervals = {}
  /\ starting = "none"
  /\ active = <<>>
  /\ orphans = {}
  /\ returned = NULL
  /\ event = "load"
  /\ runs = 0
  /\ loaded = NULL
  /\ handed = <<>>
  /\ applied = <<>>

(* ---------------------------------------------------------------------- *)
(* Scheduler: startProcessing, scheduleBatches, stopBatches, runBatch      *)
(* ---------------------------------------------------------------------- *)
\* stopBatches without clearInterval: the interval stays registered
stopBatchesKeepsInterval(bt, iv) == iv

\* lines 147-152: the intervals left after clearInterval(batchTimer)
stopBatches(bt, iv) == iv \ Range(bt)

\* lines 138-145: the previous interval is cleared, a new one registered
scheduleBatches(bt, iv, id) == stopBatches(bt, iv) \cup {id}

\* the data handler without the test of line 608
pushRecordUnguarded(results, row, lim) == Append(results, row)

\* lines 607-618: the data handler keeps a row while fewer than limit are
\* held; from then on it destroys the stream
pushRecord(results, row, lim) ==
  IF Len(results) < lim THEN Append(results, row) ELSE results

\* the data events of the rows the parser delivers, those it still holds
\* when the stream is destroyed included
RECURSIVE collect(_, _, _)
collect(results, rows, lim) ==
  IF rows = <<>> THEN results
  ELSE collect(pushRecord(results, Head(rows), lim), Tail(rows), lim)

\* the rows of a source of n rows, identified by their position
sourceRows(n) == [i \in 1..n |-> i]

\* lines 595-637: the records the promise resolves with
readFirstNRecords(n, lim) == collect(<<>>, sourceRows(n), lim)

\* lines 265-267: a stage without result contributes its empty default
knowledgeOf(resultMap) ==
  IF resultMap.knowledge = NULL THEN EmptyKnowledge ELSE resultMap.knowledge[1]
stakeholderOf(resultMap) ==
  IF resultMap.stakeholder = NULL THEN EmptyStakeholder ELSE resultMap.stakeholder[1]
memoryOf(resultMap) ==
  IF resultMap.memory = NULL THEN EmptyMemory ELSE resultMap.memory[1]

\* lines 166-173: the invocation of runBatch that has taken its slice and
\* issued the first parse call; pre is the store it found (history)
newInvocation(st, q, awaited) ==
  [run |-> runs, slice |-> Len(handed) + 1,
   batchNumber |-> st.batches + 1,
   batch |-> Take(q, batchSize),
   awaited |-> awaited,
   pc |-> "ingestion",
   ingestionOutputs |-> <<>>,
   triage |-> NULL,
   memoryContext |-> NULL,
   pending |-> {},
   resultMap |-> [knowledge |-> NULL, stakeholder |-> NULL, memory |-> NULL],
   critic |-> EmptyCritic,
   pre |-> [store |-> Store, snapshot |-> latestAgentSnapshot,
            processed |-> st.processed, batches |-> st.batches]]

\* line 155: the overlap guard of runBatch
runBatchGuard == batchInProgress

\* line 141: the guard of the interval callback
tickGuard == ~batchInProgress /\ status.status = "running"

\* startProcessing without the await of line 125
runBatchNotAwaited(q) == TRUE

\* lines 154-164: runBatch returns without suspending
runBatchReturnsAtOnce(q) == runBatchGuard \/ Len(q) = 0

\* runBatch without line 166: the in-progress flag is never raised
runBatchNoFlag(q, st, bt, iv, awaited) ==
  IF Len(q) = 0
  THEN /\ queue' = q
       /\ status' = [st EXCEPT !.status = "completed", !.completedAt = Now]
       /\ batchTimer' = NULL
       /\ intervals' = stopBatches(bt, iv)
       /\ UNCHANGED <<batchInProgress, active, handed>>
  ELSE /\ UNCHANGED batchInProgress
       /\ queue' = Drop(q, batchSize)
       /\ status' = [st EXCEPT !.queued = Len(Drop(q, batchSize)),
                               !.lastBatchAt = Now]
       /\ batchTimer' = bt
       /\ intervals' = iv
       /\ active' = Append(active, newInvocation(st, q, awaited))
       /\ handed' = Append(handed, [batchNumber |-> st.batches + 1,
                                    batch |-> Take(q, batchSize)])

\* lines 154-173: runBatch up to its first suspension, entered with queue q,
\* status st, timer handle bt and registered intervals iv
runBatch(q, st, bt, iv, awaited) ==
  IF runBatchGuard
  THEN /\ queue' = q
       /\ status' = st
       /\ batchTimer' = bt
       /\ intervals' = iv
       /\ UNCHANGED <<batchInProgress, active, handed>>
  ELSE IF Len(q) = 0
  THEN /\ queue' = q
       /\ status' = [st EXCEPT !.status = "completed", !.completedAt = Now]
       /\ batchTimer' = NULL
       /\ intervals' = stopBatches(bt, iv)
       /\ UNCHANGED <<batchInProgress, active, handed>>
  ELSE /\ batchInProgress' = TRUE
       /\ queue' = Drop(q, batchSize)
       /\ status' = [st EXCEPT !.queued = Len(Drop(q, batchSize)),
                               !.lastBatchAt = Now]
       /\ batchTimer' = bt
       /\ intervals' = iv
       /\ active' = Append(active, newInvocation(st, q, awaited))
       /\ handed' = Append(handed, [batchNumber |-> st.batches + 1,
                                    batch |-> Take(q, batchSize)])

\* the sequence s without its i-th element
Without(s, i) == SubSeq(s, 1, i - 1) \o SubSeq(s, i + 1, Len(s))

\* the end of runBatch without the finally block: the flag stays raised
settleKeepsFlag(i, st) ==
  /\ UNCHANGED batchInProgress
  /\ active' = Without(active, i)
  /\ IF Len(queue) = 0
     THEN /\ status' = [st EXCEPT !.status = "completed", !.completedAt = Now]
          /\ batchTimer' = NULL
          /\ intervals' = stopBatches(batchTimer, intervals)
     ELSE /\ status' = st
          /\ UNCHANGED <<batchTimer, intervals>>
  /\ IF active[i].awaited
     THEN /\ starting' = "none"
          /\ returned' = Some(getStatus(status'))
     ELSE /\ returned' = NULL
          /\ UNCHANGED starting
  /\ UNCHANGED queue

\* lines 329-337: finally and the end of runBatch, with st the status the
\* try or catch block left; an awaited invocation lets startProcessing
\* return (line 127)
settle(i, st) ==
  /\ batchInProgress' = FALSE
  /\ active' = Without(active, i)
  /\ IF Len(queue) = 0
     THEN /\ status' = [st EXCEPT !.status = "completed", !.completedAt = Now]
          /\ batchTimer' = NULL
          /\ intervals' = stopBatches(batchTimer, intervals)
     ELSE /\ status' = st
          /\ UNCHANGED <<batchTimer, intervals>>
  /\ IF active[i].awaited
     THEN /\ starting' = "none"
          /\ returned' = Some(getStatus(status'))
     ELSE /\ returned' = NULL
          /\ UNCHANGED starting
  /\ UNCHANGED queue

\* startProcessing without its guard
alreadyRunningNever == FALSE

\* line 109: a run is in progress
alreadyRunning == status.status = "running"

\* startProcessing with a resetState that lacks line 75: the people index
\* is not cleared
startProcessingKeepsPeople ==
  /\ event' = "startProcessing"
  /\ IF alreadyRunning
     THEN /\ returned' = Some(getStatus(status))
          /\ UNCHANGED <<status, queue, storeVars, latestAgentSnapshot, starting,
                         runs, loaded, handed, applied>>
     ELSE /\ runs < MaxRuns
          /\ status' = [IdleStatus EXCEPT !.status = "running", !.startedAt = Now]
          /\ queue' = <<>>
          /\ storeBecomes([EmptyStore EXCEPT !.peopleIndex = peopleIndex])
          /\ latestAgentSnapshot' = NULL
          /\ starting' = "reading"
          /\ runs' = runs + 1
          /\ loaded' = NULL
          /\ handed' = <<>>
          /\ applied' = <<>>
          /\ returned' = NULL
  /\ UNCHANGED <<batchSize, limit, batchTimer, batchInProgress, intervals,
                 active, orphans>>

\* lines 108-117
startProcessing ==
  /\ event' = "startProcessing"
  /\ IF alreadyRunning
     THEN /\ returned' = Some(getStatus(status))
          /\ UNCHANGED <<status, queue, storeVars, latestAgentSnapshot, starting,
                         runs, loaded, handed, applied>>
     ELSE /\ runs < MaxRuns
          /\ status' = [IdleStatus EXCEPT !.status = "running", !.startedAt = Now]
          /\ queue' = <<>>
          /\ storeBecomes(EmptyStore)
          /\ latestAgentSnapshot' = NULL
          /\ starting' = "reading"
          /\ runs' = runs + 1
          /\ loaded' = NULL
          /\ handed' = <<>>
          /\ applied' = <<>>
          /\ returned' = NULL
  /\ UNCHANGED <<batchSize, limit, batchTimer, batchInProgress, intervals,
                 active, orphans>>

\* lines 120-127: the record source delivered n rows
readResolves(n) ==
  /\ starting = "reading"
  /\ event' = "readResolves"
  /\ LET q == readFirstNRecords(n, limit)
     IN /\ runBatch(q, [status EXCEPT !.queued = Len(q)], Some(runs),
                    scheduleBatches(batchTimer, intervals, runs), TRUE)
        /\ loaded' = Some(Len(q))
        /\ IF runBatchReturnsAtOnce(q)
           THEN /\ starting' = "none"
                /\ returned' = Some(getStatus(status'))
           ELSE /\ starting' = "batch"
                /\ returned' = NULL
  /\ UNCHANGED <<batchSize, limit, storeVars, latestAgentSnapshot, orphans, runs,
                 applied>>

\* the catch block without line 130: the phase stays running
readRejectsKeepsRunning ==
  /\ starting = "reading"
  /\ event' = "readRejects"
  /\ status' = [status EXCEPT !.message = Some("read failed")]
  /\ batchTimer' = NULL
  /\ intervals' = stopBatches(batchTimer, intervals)
  /\ starting' = "none"
  /\ returned' = Some(getStatus(status'))
  /\ UNCHANGED <<batchSize, limit, queue, storeVars, latestAgentSnapshot,
                 batchInProgress, active, orphans, runs, loaded, handed, applied>>

\* lines 128-135: the record source failed
readRejects ==
  /\ starting = "reading"
  /\ event' = "readRejects"
  /\ status' = [status EXCEPT !.status = "error", !.message = Some("read failed")]
  /\ batchTimer' = NULL
  /\ intervals' = stopBatches(batchTimer, intervals)
  /\ starting' = "none"
  /\ returned' = Some(getStatus(status'))
  /\ UNCHANGED <<batchSize, limit, queue, storeVars, latestAgentSnapshot,
                 batchInProgress, active, orphans, runs, loaded, handed, applied>>

\* lines 140-144: the interval t fires
tick(t) ==
  /\ t \in intervals
  /\ event' = "tick"
  /\ IF tickGuard
     THEN runBatch(queue, status, batchTimer, intervals, FALSE)
     ELSE UNCHANGED <<queue, status, batchTimer, intervals, batchInProgress,
                      active, handed>>
  /\ returned' = NULL
  /\ UNCHANGED <<batchSize, limit, storeVars, latestAgentSnapshot, starting,
                 orphans, runs, loaded, applied>>

(* ---------------------------------------------------------------------- *)
(* Extraction pipeline: the body of runBatch between its suspensions       *)
(* ---------------------------------------------------------------------- *)
\* the audit call issued without the test of line 270
afterFanOutAlwaysAudits(runAgents) == "critic"

\* lines 269-284: after the fan-out the audit call is issued when selected,
\* else the synthesis call
afterFanOut(runAgents) == IF runAgents.critic THEN "critic" ELSE "coordinator"

\* lines 220-223: the context handed to the memory stage
memoryContextOf(topics, decisions) ==
  [existingTopics |-> topics,
   existingDecisions |-> Take(decisions, MemoryDecisionWindow)]

\* a fan-out without the tests of lines 236, 244 and 252
fanOutOfEveryStage(runAgents) == FanOutStages

\* lines 236-258: the fan-out calls issued for a routing decision
fanOutOf(runAgents) == {k \in FanOutStages : runAgents[k]}

\* the parse loop with unshift in place of push at line 184
ingestionReturnsPrepends(i, out) ==
  /\ i \in 1..Len(active)
  /\ active[i].pc = "ingestion"
  /\ event' = "ingestionReturns"
  /\ LET outs == <<out>> \o active[i].ingestionOutputs
     IN active' = [active EXCEPT ![i].ingestionOutputs = outs,
                                 ![i].pc = IF Len(outs) < Len(active[i].batch)
                                           THEN "ingestion" ELSE "triage"]
  /\ returned' = NULL
  /\ UNCHANGED <<batchSize, limit, status, queue, storeVars, latestAgentSnapshot,
                 batchTimer, batchInProgress, intervals, starting, orphans,
                 runs, loaded, handed, applied>>

\* lines 177-185: the parse call of the next record returned out
ingestionReturns(i, out) ==
  /\ i \in 1..Len(active)
  /\ active[i].pc = "ingestion"
  /\ event' = "ingestionReturns"
  /\ LET outs == Append(active[i].ingestionOutputs, out)
     IN active' = [active EXCEPT ![i].ingestionOutputs = outs,
                                 ![i].pc = IF Len(outs) < Len(active[i].batch)
                                           THEN "ingestion" ELSE "triage"]
  /\ returned' = NULL
  /\ UNCHANGED <<batchSize, limit, status, queue, storeVars, latestAgentSnapshot,
                 batchTimer, batchInProgress, intervals, starting, orphans,
                 runs, loaded, handed, applied>>

\* lines 196-263: the routing call returned triage; the selected fan-out
\* calls are issued together
triageReturns(i, triage) ==
  /\ i \in 1..Len(active)
  /\ active[i].pc = "triage"
  /\ event' = "triageReturns"
  /\ active' = [active EXCEPT
       ![i].triage = Some(triage),
       ![i].memoryContext = Some(memoryContextOf(topicIndex, decisionLog)),
       ![i].pending = fanOutOf(triage.runAgents),
       ![i].pc = IF fanOutOf(triage.runAgents) # {} THEN "fanout"
                 ELSE afterFanOut(triage.runAgents)]
  /\ returned' = NULL
  /\ UNCHANGED <<batchSize, limit, status, queue, storeVars, latestAgentSnapshot,
                 batchTimer, batchInProgress, intervals, starting, orphans,
                 runs, loaded, handed, applied>>

\* lines 236-263: a fan-out call returned out; Promise.all resolves with
\* the last of them
agentReturns(i, stage, out) ==
  /\ i \in 1..Len(active)
  /\ active[i].pc = "fanout"
  /\ stage \in active[i].pending
  /\ event' = "agentReturns"
  /\ active' = [active EXCEPT
       ![i].resultMap = [@ EXCEPT ![stage] = Some(out)],
       ![i].pending = @ \ {stage},
       ![i].pc = IF active[i].pending = {stage}
                 THEN afterFanOut(active[i].triage[1].runAgents) ELSE "fanout"]
  /\ returned' = NULL
  /\ UNCHANGED <<batchSize, limit, status, queue, storeVars, latestAgentSnapshot,
                 batchTimer, batchInProgress, intervals, starting, orphans,
                 runs, loaded, handed, applied>>

\* lines 269-278: the audit call returned out
criticReturns(i, out) ==
  /\ i \in 1..Len(active)
  /\ active[i].pc = "critic"
  /\ event' = "criticReturns"
  /\ active' = [active EXCEPT ![i].critic = out, ![i].pc = "coordinator"]
  /\ returned' = NULL
  /\ UNCHANGED <<batchSize, limit, status, queue, storeVars, latestAgentSnapshot,
                 batchTimer, batchInProgress, intervals, starting, orphans,
                 runs, loaded, handed, applied>>

\* counters that add the configured batch size instead of the slice length
statusAfterBatchFullSize(st, inv, updates) ==
  [st EXCEPT !.processed = @ + batchSize,
             !.results = Len(updates),
             !.batches = inv.batchNumber]

\* counters whose batch count is the number of the slice, failed ones included
statusAfterBatchCountsSlices(st, inv, updates) ==
  [st EXCEPT !.processed = @ + Len(inv.batch),
             !.results = Len(updates),
             !.batches = inv.slice]

\* counters whose result count is that of the batch alone
statusAfterBatchResultsOfBatch(st, inv, updates) ==
  [st EXCEPT !.processed = @ + Len(inv.batch),
             !.results = Len(memoryOf(inv.resultMap).updates),
             !.batches = inv.batchNumber]

\* counters that count a batch as one record
statusAfterBatchCountsOne(st, inv, updates) ==
  [st EXCEPT !.processed = @ + 1,
             !.results = Len(updates),
             !.batches = inv.batchNumber]

\* lines 309-311: the counters after a batch that was applied
statusAfterBatch(st, inv, updates) ==
  [st EXCEPT !.processed = @ + Len(inv.batch),
             !.results = Len(updates),
             !.batches = inv.batchNumber]

\* lines 284-337: the synthesis call returned out; the outputs are applied,
\* the snapshot is replaced and the batch ends
coordinatorReturns(i, out) ==
  /\ i \in 1..Len(active)
  /\ active[i].pc = "coordinator"
  /\ event' = "coordinatorReturns"
  /\ LET inv == active[i]
         triage == inv.triage[1]
         knowledge == knowledgeOf(inv.resultMap)
         stakeholder == stakeholderOf(inv.resultMap)
         memory == memoryOf(inv.resultMap)
         next == applyOutputs(Store, inv.ingestionOutputs, knowledge,
                              stakeholder, memory, inv.critic, out)
     IN /\ storeBecomes(next)
        /\ latestAgentSnapshot' =
             Some(buildAgentSnapshot(inv.batchNumber, triage.reasoning,
                                     selectedListOf(triage.runAgents),
                                     skippedListOf(triage.runAgents),
                                     knowledge, stakeholder, memory, inv.critic, out))
        /\ applied' = Append(applied,
             [slice |-> inv.slice, ingestionOutputs |-> inv.ingestionOutputs,
              knowledge |-> knowledge, stakeholder |-> stakeholder,
              memory |-> memory, critic |-> inv.critic, coordinator |-> out])
        /\ settle(i, statusAfterBatch(status, inv, next.knowledgeUpdates))
  /\ UNCHANGED <<batchSize, limit, orphans, runs, loaded, handed>>

\* a failure that also uses up the batch number
statusAfterFailureCountsBatch(st) ==
  [st EXCEPT !.errors = @ + 1, !.batches = @ + 1]
\* a failure that ends the run
statusAfterFailureStops(st) ==
  [st EXCEPT !.errors = @ + 1, !.status = "error"]

\* a catch block that leaves the counters alone
statusAfterFailureUncounted(st) == st

\* lines 325-328: the counters after a batch that failed
statusAfterFailure(st) == [st EXCEPT !.errors = @ + 1]

\* the catch of lines 325-331 reached only by the last record of a batch:
\* a parse call that fails for an earlier record is skipped
capabilityFailsContinues(i) ==
  /\ i \in 1..Len(active)
  /\ active[i].pc \in {"ingestion", "triage", "critic", "coordinator"}
  /\ event' = "capabilityFails"
  /\ IF active[i].pc = "ingestion"
          /\ Len(active[i].ingestionOutputs) + 1 < Len(active[i].batch)
     THEN /\ active' = [active EXCEPT ![i].batch =
                          SubSeq(@, 1, Len(active[i].ingestionOutputs))
                            \o SubSeq(@, Len(active[i].ingestionOutputs) + 2, Len(@))]
          /\ returned' = NULL
          /\ UNCHANGED <<status, queue, batchTimer, batchInProgress, intervals,
                         starting>>
     ELSE settle(i, statusAfterFailure(status))
  /\ UNCHANGED <<batchSize, limit, storeVars, latestAgentSnapshot, orphans,
                 runs, loaded, handed, applied>>

\* lines 325-337: a parse, routing, audit or synthesis call failed
capabilityFails(i) ==
  /\ i \in 1..Len(active)
  /\ active[i].pc \in {"ingestion", "triage", "critic", "coordinator"}
  /\ event' = "capabilityFails"
  /\ settle(i, statusAfterFailure(status))
  /\ UNCHANGED <<batchSize, limit, storeVars, latestAgentSnapshot, orphans,
                 runs, loaded, handed, applied>>

\* lines 260-263, 325-337: a fan-out call failed; Promise.all rejects at
\* once and the other fan-out calls stay in flight, awaited by nobody
agentFails(i, stage) ==
  /\ i \in 1..Len(active)
  /\ active[i].pc = "fanout"
  /\ stage \in active[i].pending
  /\ event' = "agentFails"
  /\ orphans' = orphans \cup
       {[run |-> active[i].run, slice |-> active[i].slice, stage |-> k] :
          k \in active[i].pending \ {stage}}
  /\ Cardinality(orphans') <= MaxOrphans
  /\ settle(i, statusAfterFailure(status))
  /\ UNCHANGED <<batchSize, limit, storeVars, latestAgentSnapshot,
                 runs, loaded, handed, applied>>

\* lines 238-256: a call that nobody awaits settles; its result goes to
\* the resultMap of an invocation that has ended
orphanSettles(o) ==
  /\ o \in orphans
  /\ event' = "orphanSettles"
  /\ orphans' = orphans \ {o}
  /\ returned' = NULL
  /\ UNCHANGED <<batchSize, limit, status, queue, storeVars, latestAgentSnapshot,
                 batchTimer, batchInProgress, intervals, starting, active,
                 runs, loaded, handed, applied>>

(* ---------------------------------------------------------------------- *)
(* Specification                                                           *)
(* ---------------------------------------------------------------------- *)
StartProcessing == startProcessing
ReadResolves == \E n \in 0..MaxSource : readResolves(n)
ReadRejects == readRejects
Tick == \E t \in intervals : tick(t)
IngestionReturns ==
  \E i \in 1..Len(active) : \E out \in IngestionResults : ingestionReturns(i, out)
TriageReturns ==
  \E i \in 1..Len(active) : \E out \in TriageResults : triageReturns(i, out)
AgentReturns ==
  \E i \in 1..Len(active) : \E stage \in FanOutStages :
    \E out \in FanOutResults(stage) : agentReturns(i, stage, out)
AgentFails ==
  \E i \in 1..Len(active) : \E stage \in FanOutStages : agentFails(i, stage)
CriticReturns ==
  \E i \in 1..Len(active) : \E out \in CriticResults : criticReturns(i, out)
CoordinatorReturns ==
  \E i \in 1..Len(active) : \E out \in CoordinatorResults : coordinatorReturns(i, out)
CapabilityFails == \E i \in 1..Len(active) : capabilityFails(i)
OrphanSettles == \E o \in orphans : orphanSettles(o)

Next ==
  \/ StartProcessing
  \/ ReadResolves
  \/ ReadRejects
  \/ Tick
  \/ IngestionReturns
  \/ TriageReturns
  \/ AgentReturns
  \/ AgentFails
  \/ CriticReturns
  \/ CoordinatorReturns
  \/ CapabilityFails
  \/ OrphanSettles

Spec == Init /\ [][Next]_vars

(* ---------------------------------------------------------------------- *)
(* Properties                                                              *)
(* ---------------------------------------------------------------------- *)
\* everything a handler can change, apart from its own trace
handlerVars ==
  <<batchSize, limit, status, queue, knowledgeUpdates, informationFlow,
    conflicts, decisionLog, recommendations, latestAgentSnapshot, peopleIndex,
    topicIndex, batchTimer, batchInProgress, intervals, starting, active,
    orphans, runs, loaded, handed, applied>>

\* the store that results from applying the outputs in log to st, in order
RECURSIVE replay(_, _)
replay(st, log) ==
  IF log = <<>> THEN st
  ELSE replay(applyOutputs(st, Head(log).ingestionOutputs, Head(log).knowledge,
                           Head(log).stakeholder, Head(log).memory,
                           Head(log).critic, Head(log).coordinator),
              Tail(log))

\* C1: at most one runBatch invocation is between taking its slice and
\* releasing the in-progress flag, the flag is raised exactly while one is,
\* and a tick that fires while a batch is in progress changes nothing: it
\* takes no record, starts no call and leaves nothing behind for later.
C1_AtMostOneBatch ==
  /\ [](Len(active) <= 1 /\ (batchInProgress <=> Len(active) = 1))
  /\ [][(event' = "tick" /\ batchInProgress)
          => (UNCHANGED handlerVars /\ returned' = NULL)]_vars

\* a tick has fired, and was dropped, while a batch was suspended
C1_Witness ==
  /\ event = "tick"
  /\ batchInProgress
  /\ Len(active) = 1
  /\ active[1].pc = "fanout"

\* C2: a batch takes its slice only when no other invocation is active and
\* the flag is released, and the context every invocation holds for the
\* memory stage is the topic index and decision log that result from the
\* batches applied so far in the run, each applied in full.
C2_BatchesInSequence ==
  /\ [][(handed' # handed /\ handed' # <<>>)
          => (active = <<>> /\ ~batchInProgress /\ Len(active') = 1
              /\ Store = replay(EmptyStore, applied))]_vars
  /\ [](\A i \in 1..Len(active) :
          active[i].memoryContext # NULL =>
            LET committed == replay(EmptyStore, applied)
            IN /\ active[i].memoryContext[1] =
                    memoryContextOf(committed.topicIndex, committed.decisionLog)
               /\ Store = committed)

\* the second batch of a run holds a memory context that shows the first
C2_Witness ==
  /\ Len(active) = 1
  /\ active[1].slice = 2
  /\ active[1].memoryContext # NULL
  /\ active[1].memoryContext[1].existingTopics # <<>>
  /\ active[1].memoryContext[1].existingDecisions # <<>>
  /\ Len(applied) = 1

\* the steps in which a batch fails
batchFailed(e) == e \in {"capabilityFails", "agentFails"}

\* the records of the slices in h, in the order they were handed out
RECURSIVE recordsOf(_)
recordsOf(h) == IF h = <<>> THEN <<>> ELSE Head(h).batch \o recordsOf(Tail(h))

\* the smallest integer that is at least n / b
Ceil(n, b) == (n + b - 1) \div b

\* C3 as stated: once loading has completed, queued + processed is the
\* number of records loaded, at every observation point.
C3_Original ==
  loaded # NULL => status.queued + status.processed = loaded[1]

\* C3 as amended: once loading has completed, queued + processed never
\* exceeds the number of records loaded, and equals it exactly at the points
\* where no batch is in progress and no batch of the run has failed.
C3_ConservationBetweenBatches ==
  loaded # NULL =>
    /\ status.queued + status.processed <= loaded[1]
    /\ (status.queued + status.processed = loaded[1])
         <=> (active = <<>> /\ status.errors = 0)

\* two batches were applied without failure and records are still queued
C3_Witness ==
  /\ loaded = Some(3)
  /\ active = <<>>
  /\ status.errors = 0
  /\ status.processed = 2
  /\ status.queued = 1

\* C4: a startProcessing call made while the phase is running returns the
\* current status and changes nothing else: queue, status, indexes, logs,
\* recommendations, snapshot, timer, registered intervals, invocations.
C4_StartWhileRunningIsNoOp ==
  [][(event' = "startProcessing" /\ status.status = "running")
       => (returned' = Some(status) /\ UNCHANGED handlerVars)]_vars

\* startProcessing has just returned between two timer batches of a run
\* whose indexes are filled
C4_Witness ==
  /\ event = "startProcessing"
  /\ returned = Some(status)
  /\ status.status = "running"
  /\ status.batches >= 1
  /\ peopleIndex # <<>>
  /\ batchTimer # NULL
  /\ queue # <<>>

\* C5: the step in which a capability call of a batch fails raises errors
\* by exactly 1 and leaves the store, the snapshot, processed and batches
\* as the batch found them; a call that settles after its batch has failed
\* changes neither the status nor the store.
C5_FailedBatchLeavesNoTrace ==
  /\ [][batchFailed(event') =>
          \E i \in 1..Len(active) :
            /\ active' = Without(active, i)
            /\ status'.errors = status.errors + 1
            /\ Store' = active[i].pre.store
            /\ latestAgentSnapshot' = active[i].pre.snapshot
            /\ status'.processed = active[i].pre.processed
            /\ status'.batches = active[i].pre.batches]_vars
  /\ [][event' = "orphanSettles"
          => UNCHANGED <<status, storeVars, latestAgentSnapshot>>]_vars

\* the second batch of a run has just failed after the first was applied
C5_Witness ==
  /\ batchFailed(event)
  /\ Len(handed) = 2
  /\ status.errors = 1
  /\ status.batches = 1
  /\ peopleIndex # <<>>
  /\ latestAgentSnapshot # NULL

\* C6: a batch that fails while records remain queued leaves the phase
\* running, the timer armed and the flag released, and the next tick takes
\* the next slice; a batch that fails with the queue empty completes the
\* run; the phase becomes error only when the record source fails.
C6_FailureKeepsScheduler ==
  /\ [][(batchFailed(event') /\ queue # <<>>)
          => /\ status'.status = "running"
             /\ batchTimer' # NULL
             /\ batchTimer'[1] \in intervals'
             /\ ~batchInProgress']_vars
  /\ [][(batchFailed(event') /\ queue = <<>>)
          => status'.status = "completed"]_vars
  /\ [][(event' = "tick" /\ status.status = "running" /\ ~batchInProgress
           /\ queue # <<>>)
          => Len(handed') = Len(handed) + 1]_vars
  /\ [][(status'.status = "error" /\ status.status # "error")
          => event' = "readRejects"]_vars

\* a tick has started the next batch after a failed one
C6_Witness ==
  /\ event = "tick"
  /\ status.errors >= 1
  /\ status.status = "running"
  /\ Len(active) = 1
  /\ Len(handed) >= 2

\* C7: a failure of the record source ends startProcessing with phase
\* error and a message; in phase error no timer is armed, no interval is
\* registered, no slice was taken and no capability call was issued in the
\* run; the phase leaves error only through a startProcessing call, which
\* is accepted and starts a fresh run.
C7_SourceFailureIsFatal ==
  /\ [][event' = "readRejects"
          => /\ status'.status = "error"
             /\ status'.message # NULL
             /\ returned' = Some(status')]_vars
  /\ [](status.status = "error"
          => /\ batchTimer = NULL
             /\ intervals = {}
             /\ ~batchInProgress
             /\ active = <<>>
             /\ handed = <<>>
             /\ \A o \in orphans : o.run # runs
             /\ status.message # NULL
             /\ (runs < MaxRuns => ENABLED StartProcessing))
  /\ [][(status.status = "error" /\ status'.status # "error")
          => /\ event' = "startProcessing"
             /\ status' = [IdleStatus EXCEPT !.status = "running",
                                             !.startedAt = Now]
             /\ starting' = "reading"
             /\ runs' = runs + 1
             /\ Store' = EmptyStore
             /\ queue' = <<>>]_vars
  /\ [][(status.status = "error" /\ event' = "startProcessing")
          => status'.status = "running"]_vars

\* the record source has just failed in a run that follows an earlier one
C7_Witness ==
  /\ event = "readRejects"
  /\ status.status = "error"
  /\ runs = 2

\* C8: once loaded, the records handed out so far followed by the queue
\* are the loaded records, each exactly once and in source order; within a
\* run the queue never grows.
C8_AtMostOnce ==
  /\ [](loaded # NULL
          => recordsOf(handed) \o queue = [k \in 1..loaded[1] |-> k])
  /\ [][(loaded # NULL /\ loaded' # NULL)
          => /\ Len(queue') <= Len(queue)
             /\ queue' = SubSeq(queue, Len(queue) - Len(queue') + 1, Len(queue))]_vars

\* a batch has failed and the run went on to drain the queue
C8_Witness ==
  /\ status.status = "completed"
  /\ status.errors >= 1
  /\ Len(handed) >= 2
  /\ queue = <<>>

\* C9: a run that loaded n records and completed without a failure handed
\* out exactly ceil(n/B) slices, the k-th holding records (k-1)B+1 .. min(kB,n)
\* and stamped k; batches is ceil(n/B), processed is n, queued is 0.
C9_BatchCount ==
  (status.status = "completed" /\ status.errors = 0 /\ loaded # NULL) =>
    LET n == loaded[1]
        c == Ceil(n, batchSize)
    IN /\ Len(handed) = c
       /\ \A k \in 1..Len(handed) :
            /\ handed[k].batchNumber = k
            /\ handed[k].batch =
                 [j \in 1..(Min(k * batchSize, n) - (k - 1) * batchSize)
                    |-> (k - 1) * batchSize + j]
       /\ status.batches = c
       /\ status.processed = n
       /\ status.queued = 0
       /\ Len(applied) = c

\* three records in batches of two: slices of 2 and 1
C9_Witness ==
  /\ status.status = "completed"
  /\ status.errors = 0
  /\ loaded = Some(3)
  /\ batchSize = 2
  /\ status.batches = 2
  /\ Len(handed[2].batch) = 1

(* ---------------------------------------------------------------------- *)
(* Liveness                                                                *)
(* ---------------------------------------------------------------------- *)
\* a capability call that an invocation awaits returns or fails
Settles ==
  \/ IngestionReturns
  \/ TriageReturns
  \/ AgentReturns
  \/ AgentFails
  \/ CriticReturns
  \/ CoordinatorReturns
  \/ CapabilityFails

\* the read of the record source ends
ReadEnds == ReadResolves \/ ReadRejects

\* the interval keeps firing, the record source answers, and every awaited
\* capability call returns or fails
LiveInit == Init /\ limit <= MaxLiveLimit

LiveNext ==
  /\ Next
  /\ runs' <= MaxLiveRuns
  /\ Cardinality(orphans') <= MaxLiveOrphans

FairSpec ==
  /\ LiveInit
  /\ [][LiveNext]_vars
  /\ WF_vars(Tick)
  /\ WF_vars(ReadEnds)
  /\ WF_vars(Settles)

\* C10: a run in phase running reaches phase completed or error; in those
\* phases no interval is registered, no batch is in progress, and no step
\* but an accepted startProcessing call changes the scheduler again.
C10_RunTerminates ==
  /\ (status.status = "running") ~> (status.status \in {"completed", "error"})
  /\ [](status.status \in {"completed", "error"}
          => (intervals = {} /\ batchTimer = NULL /\ active = <<>>
              /\ ~batchInProgress))
  /\ [][(status.status \in {"completed", "error"} /\ event' # "startProcessing")
          => UNCHANGED <<status, queue, handed, active, batchInProgress,
                         batchTimer, intervals>>]_vars

\* a run has completed after a failed batch and a later timer batch
C10_Witness ==
  /\ status.status = "completed"
  /\ event = "coordinatorReturns"
  /\ status.errors = 1
  /\ status.batches = 1
  /\ Len(handed) = 2
  /\ intervals = {}

(* ---------------------------------------------------------------------- *)
(* Phases and the return of startProcessing                                *)
(* ---------------------------------------------------------------------- *)
\* the steps in which a runBatch invocation is entered
batchEntered(e) == e \in {"readResolves", "tick"}

\* the steps in which a runBatch invocation ends after its batch
batchEnded(e) == e \in {"coordinatorReturns", "capabilityFails", "agentFails"}

\* C11: the phase becomes completed exactly in the steps in which runBatch
\* is entered with an empty queue (a source without records completes with
\* batches 0, no slice and no capability call) or ends a batch, applied or
\* failed, with the queue empty; the same step cancels the timer; and in
\* phase idle, completed or error the timer is not armed.
C11_CompletedWhenQueueEmpty ==
  /\ [][(status'.status = "completed" /\ status.status # "completed")
          => /\ status.status = "running"
             /\ \/ /\ batchEntered(event')
                   /\ ~batchInProgress
                   /\ queue' = <<>>
                   /\ UNCHANGED <<handed, active, applied>>
                \/ /\ batchEnded(event')
                   /\ queue = <<>>
                   /\ Len(active') = Len(active) - 1
             /\ batchTimer' = NULL
             /\ intervals' = {}]_vars
  /\ [][(batchEnded(event') /\ queue = <<>>) => status'.status = "completed"]_vars
  /\ [][(batchEnded(event') /\ queue # <<>>) => status'.status = "running"]_vars
  /\ [][(event' = "readResolves" /\ loaded' = Some(0))
          => /\ status'.status = "completed"
             /\ status'.batches = 0
             /\ handed' = <<>>
             /\ active' = <<>>]_vars
  /\ [][(event' = "readResolves" /\ loaded' # Some(0))
          => status'.status = "running"]_vars
  /\ [][(event' = "tick" /\ tickGuard)
          => (status'.status = "completed" <=> queue = <<>>)]_vars
  /\ [](status.status \in {"idle", "completed", "error"}
          => (batchTimer = NULL /\ intervals = {}))

\* a source without records has completed the run at the entry of runBatch
C11_Witness ==
  /\ event = "readResolves"
  /\ loaded = Some(0)
  /\ status.status = "completed"
  /\ status.batches = 0
  /\ handed = <<>>
  /\ batchTimer = NULL

\* C12: the accepted startProcessing call does not return while the read or
\* the first batch is pending; when it returns after loading at least one
\* record, the step is the end of the first batch: one slice was handed
\* out, it was applied (processed > 0) or failed (errors = 1), no batch is
\* in progress, and the timer is armed exactly if records remain queued.
C12_ReturnsAfterFirstBatch ==
  /\ [][(returned' # NULL /\ event' # "startProcessing")
          => /\ starting # "none"
             /\ starting' = "none"
             /\ returned' = Some(status')]_vars
  /\ [][(starting # "none" /\ starting' # "none")
          => (returned' = NULL \/ event' = "startProcessing")]_vars
  /\ [][(returned' # NULL /\ event' # "startProcessing"
           /\ loaded' # NULL /\ loaded' # Some(0))
          => /\ batchEnded(event')
             /\ starting = "batch"
             /\ Len(active) = 1
             /\ active[1].awaited
             /\ active[1].slice = 1
             /\ Len(handed') = 1
             /\ active' = <<>>
             /\ ~batchInProgress'
             /\ \/ /\ status'.processed = Len(handed'[1].batch)
                   /\ status'.processed > 0
                   /\ status'.batches = 1
                   /\ status'.errors = 0
                   /\ Len(applied') = 1
                \/ /\ status'.errors = 1
                   /\ status'.processed = 0
                   /\ status'.batches = 0
                   /\ applied' = <<>>
             /\ (batchTimer' # NULL <=> queue' # <<>>)
             /\ (batchTimer' # NULL => batchTimer'[1] \in intervals')
             /\ (batchTimer' = NULL => intervals' = {})
             /\ (status'.status = "running" <=> queue' # <<>>)]_vars

\* startProcessing has just returned after an applied first batch, with
\* records left for the timer
C12_Witness ==
  /\ event = "coordinatorReturns"
  /\ returned = Some(status)
  /\ starting = "none"
  /\ Len(handed) = 1
  /\ status.processed > 0
  /\ queue # <<>>
  /\ batchTimer # NULL
  /\ ~batchInProgress

\* C13: a startProcessing call made in phase idle, completed or error
\* leaves the status of a fresh run (counters 0, completedAt and lastBatchAt
\* null, no message), an empty queue, empty indexes and logs, no
\* recommendations and no snapshot, with the read pending; and at every
\* later point the store is what the outputs applied in the current run
\* produce from the empty store, so that nothing of an earlier run, its
\* calls still in flight included, shows in it.
C13_StartResetsEverything ==
  /\ [][(event' = "startProcessing" /\ status.status \in {"idle", "completed", "error"})
          => /\ status' = [IdleStatus EXCEPT !.status = "running", !.startedAt = Now]
             /\ queue' = <<>>
             /\ peopleIndex' = <<>>
             /\ topicIndex' = <<>>
             /\ conflicts' = <<>>
             /\ decisionLog' = <<>>
             /\ knowledgeUpdates' = <<>>
             /\ informationFlow' = <<>>
             /\ recommendations' = NULL
             /\ latestAgentSnapshot' = NULL
             /\ starting' = "reading"
             /\ loaded' = NULL]_vars
  /\ [](/\ Store = replay(EmptyStore, applied)
        /\ status.processed <= Len(recordsOf(handed))
        /\ status.batches = Len(applied)
        /\ (applied = <<>> => latestAgentSnapshot = NULL))
  /\ [][event' = "orphanSettles"
          => UNCHANGED <<status, queue, storeVars, latestAgentSnapshot>>]_vars

\* a second run has just been started and shows nothing of the first
C13_Witness ==
  /\ event = "startProcessing"
  /\ runs = 2
  /\ status = [IdleStatus EXCEPT !.status = "running", !.startedAt = Now]
  /\ starting = "reading"
  /\ Store = EmptyStore
  /\ latestAgentSnapshot = NULL
  /\ queue = <<>>

(* ---------------------------------------------------------------------- *)
(* Routing: every routing decision, parse results that show their record   *)
(* ---------------------------------------------------------------------- *)
\* the result of the parsing capability for record r
parseOf(r) == [from |-> "a", to |-> <<"b">>, timestamp |-> "t", body |-> r]

\* every routing decision (TriageSchema)
RouteTriageResults ==
  {[runAgents |-> [k \in Range(AgentKeys) |-> k \in sel], reasoning |-> "why"] :
     sel \in SUBSET Range(AgentKeys)}

\* lines 177-185: the parse call in flight is the one of the next record
RouteIngestionReturns ==
  \E i \in 1..Len(active) :
    /\ active[i].pc = "ingestion"
    /\ ingestionReturns(i,
         parseOf(active[i].batch[Len(active[i].ingestionOutputs) + 1]))

RouteTriageReturns ==
  \E i \in 1..Len(active) : \E out \in RouteTriageResults : triageReturns(i, out)

\* results of the audit capability: a conflict on a topic the analysis
\* stage names, or on one that no stage names (CriticSchema)
RouteCriticResults ==
  CriticResults \cup
    {[conflicts |-> <<[topic |-> "t1", description |-> "y", severity |-> "high"]>>],
     EmptyCritic}

RouteCriticReturns ==
  \E i \in 1..Len(active) : \E out \in RouteCriticResults : criticReturns(i, out)

\* batches of the largest size, so that a load of MaxRouteLimit records
\* gives a full batch and a partial one
RouteInit == Init /\ batchSize = MaxBatchSize /\ limit <= MaxRouteLimit

\* lines 108-117, for at most MaxRouteRuns accepted calls
RouteStartProcessing == startProcessing /\ runs' <= MaxRouteRuns

RouteNext ==
  \/ RouteStartProcessing
  \/ ReadResolves
  \/ ReadRejects
  \/ Tick
  \/ RouteIngestionReturns
  \/ RouteTriageReturns
  \/ AgentReturns
  \/ AgentFails
  \/ RouteCriticReturns
  \/ CoordinatorReturns
  \/ CapabilityFails
  \/ OrphanSettles

RouteSpec == RouteInit /\ [][RouteNext]_vars

\* the parse results of the records in batch, in input order
parsedOf(batch) == [k \in 1..Len(batch) |-> parseOf(batch[k])]

\* the routing flags an invocation holds
flagsOf(inv) == inv.triage[1].runAgents

\* lines 260-284: the call issued once the fan-out of inv is over
nextStageOf(inv) == IF flagsOf(inv).critic THEN "critic" ELSE "coordinator"

\* C14: within a batch the parse results held are those of the first
\* records of the slice in input order, and a parse call is pending exactly
\* while some record has none; the routing result exists exactly from the
\* routing return on, and before it no analysis call is pending and no
\* analysis or audit result exists; the audit call is pending only when
\* selected and only with every selected analysis result present; the
\* synthesis call is pending only with the fan-out over and the audit
\* returned or not selected; each return moves the batch to the next stage
\* of that order; and a batch ends either by a failure or by the return of
\* its synthesis call, which alone applies outputs, whatever the flags.
C14_StageOrder ==
  /\ [](\A i \in 1..Len(active) :
          LET inv == active[i]
          IN /\ inv.ingestionOutputs =
                  SubSeq(parsedOf(inv.batch), 1, Len(inv.ingestionOutputs))
             /\ (inv.pc = "ingestion"
                   <=> Len(inv.ingestionOutputs) < Len(inv.batch))
             /\ (inv.pc \in {"ingestion", "triage"} <=> inv.triage = NULL)
             /\ inv.triage = NULL
                  => /\ inv.pending = {}
                     /\ \A k \in FanOutStages : inv.resultMap[k] = NULL
                     /\ inv.critic = EmptyCritic
             /\ inv.pc = "fanout"
                  => /\ inv.pending # {}
                     /\ inv.pending \subseteq fanOutOf(flagsOf(inv))
                     /\ inv.critic = EmptyCritic
             /\ inv.pc \in {"critic", "coordinator"}
                  => /\ inv.pending = {}
                     /\ \A k \in FanOutStages :
                          inv.resultMap[k] # NULL <=> flagsOf(inv)[k]
             /\ inv.pc = "critic"
                  => (flagsOf(inv).critic /\ inv.critic = EmptyCritic)
             /\ (inv.pc = "coordinator" /\ ~flagsOf(inv).critic)
                  => inv.critic = EmptyCritic)
  /\ [][(Len(active) = 1 /\ Len(active') = 1 /\ active' # active
           /\ active'[1].slice = active[1].slice /\ active'[1].run = active[1].run)
          => LET inv == active[1]
                 new == active'[1]
             IN /\ event' = "ingestionReturns"
                     => (inv.pc = "ingestion" /\ new.pc \in {"ingestion", "triage"}
                         /\ Len(new.ingestionOutputs) = Len(inv.ingestionOutputs) + 1)
                /\ event' = "triageReturns"
                     => /\ inv.pc = "triage"
                        /\ new.pending = fanOutOf(flagsOf(new))
                        /\ new.pc = IF new.pending # {} THEN "fanout"
                                    ELSE nextStageOf(new)
                /\ event' = "agentReturns"
                     => /\ inv.pc = "fanout"
                        /\ new.pc = IF new.pending # {} THEN "fanout"
                                    ELSE nextStageOf(new)
                /\ event' = "criticReturns"
                     => (inv.pc = "critic" /\ new.pc = "coordinator")
                /\ event' \in {"ingestionReturns", "triageReturns",
                               "agentReturns", "criticReturns"}]_vars
  /\ [][Len(active') < Len(active)
          => \/ batchFailed(event')
             \/ /\ event' = "coordinatorReturns"
                /\ active[1].pc = "coordinator"
                /\ Len(applied') = Len(applied) + 1
                /\ applied'[Len(applied')].ingestionOutputs
                     = parsedOf(active[1].batch)]_vars
  /\ [][(applied' # applied /\ applied' # <<>>)
          => (event' = "coordinatorReturns" /\ active[1].pc = "coordinator")]_vars

\* the audit call of a batch of two records is pending after a fan-out
\* that held the memory stage alone
C14_Witness ==
  /\ Len(active) = 1
  /\ active[1].pc = "critic"
  /\ Len(active[1].batch) = 2
  /\ active[1].ingestionOutputs = <<parseOf(1), parseOf(2)>>
  /\ fanOutOf(flagsOf(active[1])) = {"memory"}
  /\ active[1].resultMap.memory # NULL

\* the fan-out stages whose result an invocation holds
settledOf(inv) == {k \in FanOutStages : inv.resultMap[k] # NULL}

\* C15: the step in which the routing call returns leaves in flight exactly
\* the calls of the stages among knowledge, stakeholder and memory whose
\* flag is set, all at once; from then on the calls in flight together
\* with the results held are those stages and no other; and the audit call,
\* the synthesis call and the application of the outputs happen only with
\* no fan-out call in flight and the result of every selected stage held.
C15_FanOut ==
  /\ [][event' = "triageReturns"
          => /\ Len(active') = 1
             /\ active'[1].pending =
                  {k \in FanOutStages : flagsOf(active'[1])[k]}
             /\ settledOf(active'[1]) = {}]_vars
  /\ [](\A i \in 1..Len(active) :
          LET inv == active[i]
          IN inv.triage # NULL
               => /\ inv.pending \cup settledOf(inv) =
                       {k \in FanOutStages : flagsOf(inv)[k]}
                  /\ inv.pending \cap settledOf(inv) = {}
                  /\ (inv.pc = "fanout" <=> inv.pending # {})
                  /\ inv.pc \in {"critic", "coordinator"}
                       => settledOf(inv) = {k \in FanOutStages : flagsOf(inv)[k]})
  /\ [][(applied' # applied /\ applied' # <<>>)
          => /\ Len(active) = 1
             /\ active[1].pending = {}
             /\ settledOf(active[1]) =
                  {k \in FanOutStages : flagsOf(active[1])[k]}
             /\ \A k \in FanOutStages :
                  /\ flagsOf(active[1])[k]
                       => applied'[Len(applied')][k] = active[1].resultMap[k][1]
                  /\ ~flagsOf(active[1])[k]
                       => applied'[Len(applied')][k] =
                            (CASE k = "knowledge" -> EmptyKnowledge
                               [] k = "stakeholder" -> EmptyStakeholder
                               [] k = "memory" -> EmptyMemory)]_vars
  /\ [][(event' = "agentReturns" /\ Len(active') = 1 /\ active'[1].pending # {})
          => active'[1].pc = "fanout"]_vars

\* the routing call has just returned and the knowledge and memory calls
\* are in flight together, the stakeholder stage not being selected
C15_Witness ==
  /\ event = "triageReturns"
  /\ Len(active) = 1
  /\ active[1].pc = "fanout"
  /\ active[1].pending = {"knowledge", "memory"}
  /\ ~flagsOf(active[1]).stakeholder
  /\ settledOf(active[1]) = {}

(* ---------------------------------------------------------------------- *)
(* Capability calls in flight                                              *)
(* ---------------------------------------------------------------------- *)
\* the calls an invocation is suspended on: the selected fan-out calls not
\* yet settled, or the one call of its current stage
inFlightOf(inv) == IF inv.pc = "fanout" THEN inv.pending ELSE {inv.pc}

\* every capability call in flight, awaited or not, with its batch
callsInFlight ==
  UNION {{[run |-> active[i].run, slice |-> active[i].slice, stage |-> k] :
            k \in inFlightOf(active[i])} : i \in 1..Len(active)}
  \cup orphans

\* C16: all capability calls in flight belong to one batch, more than one
\* call is in flight only within a fan-out, and when a batch takes its
\* slice no call of an earlier batch is in flight, also after a failed
\* fan-out stage.
C16_CallsOfOneBatch ==
  /\ [](\A c, d \in callsInFlight : c.run = d.run /\ c.slice = d.slice)
  /\ [](Cardinality(callsInFlight) > 1
          => \A c \in callsInFlight : c.stage \in FanOutStages)
  /\ [][(handed' # handed /\ handed' # <<>>) => callsInFlight = {}]_vars

(* ---------------------------------------------------------------------- *)
(* What readers observe                                                    *)
(* ---------------------------------------------------------------------- *)
\* C17: at every point between two handler steps, a batch being in progress
\* or not, the indexes, the logs and recommendations are what the outputs
\* of the batches applied so far, each applied in full, produce from the
\* empty store; the number of those batches is status.batches; and the
\* snapshot is null exactly when status.batches is 0 and otherwise carries
\* status.batches as its batchNumber.
C17_WholeBatchesObserved ==
  /\ Store = replay(EmptyStore, applied)
  /\ Len(applied) = status.batches
  /\ (latestAgentSnapshot = NULL <=> status.batches = 0)
  /\ latestAgentSnapshot # NULL
       => latestAgentSnapshot[1].batchNumber = status.batches

\* the third batch of a run waits for its synthesis call, after one applied
\* and one failed batch: the store and the snapshot show one batch
C17_Witness ==
  /\ Len(active) = 1
  /\ active[1].slice = 3
  /\ active[1].pc = "coordinator"
  /\ status.batches = 1
  /\ status.errors = 1
  /\ latestAgentSnapshot # NULL
  /\ latestAgentSnapshot[1].batchNumber = 1
  /\ peopleIndex # <<>>

(* ---------------------------------------------------------------------- *)
(* Stages that the routing decision leaves out                             *)
(* ---------------------------------------------------------------------- *)
\* the keys of a map
keysOf(map, key) == {map[i][key] : i \in 1..Len(map)}

\* the entry a map holds under k
entryOf(map, k, key) == map[IndexOf(map, k, key)]

\* lines 402-465: the name a stage carries in the snapshot
agentNameOf(k) ==
  CASE k = "knowledge" -> "Knowledge"
    [] k = "stakeholder" -> "Stakeholder"
    [] k = "memory" -> "Memory"
    [] k = "critic" -> "Critic"

\* the status the snapshot snap shows for stage k
statusIn(snap, k) ==
  (CHOOSE a \in Range(snap.agents) : a.name = agentNameOf(k)).status

\* line 495: sender and recipients of the parsed messages
participantsOf(ingestionOutputs) ==
  UNION {{ingestionOutputs[j].from} \cup Range(ingestionOutputs[j].to) :
           j \in 1..Len(ingestionOutputs)}

\* the topics of the memory updates an invocation holds
updatedTopicsOf(inv) ==
  IF inv.resultMap.memory = NULL THEN {}
  ELSE {u.topic : u \in Range(inv.resultMap.memory[1].updates)}

\* C18: an invocation never has a call in flight, nor holds a result, for a
\* stage whose routing flag is false; and the step that applies its batch
\* shows every such stage as skipped in the snapshot and, for knowledge,
\* adds no decision and no topic key other than those of memory updates;
\* for stakeholder, changes no role and adds no person other than the
\* participants of the parsed messages, without role; for memory, adds no
\* change event and leaves summary, confidence and isNew of every indexed
\* topic as they were; for critic, adds no conflict and raises no conflict
\* flag.
C18_SkippedStageLeavesNothing ==
  /\ [](\A i \in 1..Len(active) :
          active[i].triage # NULL
            => /\ \A k \in FanOutStages :
                    ~flagsOf(active[i])[k]
                      => /\ k \notin inFlightOf(active[i])
                         /\ active[i].resultMap[k] = NULL
               /\ ~flagsOf(active[i]).critic
                    => /\ "critic" \notin inFlightOf(active[i])
                       /\ active[i].critic = EmptyCritic)
  /\ [][event' = "coordinatorReturns"
          => LET inv == active[1]
                 flags == flagsOf(inv)
                 snap == latestAgentSnapshot'[1]
             IN /\ \A k \in Range(AgentKeys) :
                     /\ statusIn(snap, k) = "skipped" <=> ~flags[k]
                     /\ Includes(snap.skippedAgents, k) <=> ~flags[k]
                     /\ Includes(snap.selectedAgents, k) <=> flags[k]
                /\ ~flags.knowledge
                     => /\ decisionLog' = decisionLog
                        /\ keysOf(topicIndex', topicOf) \subseteq
                             keysOf(topicIndex, topicOf) \cup updatedTopicsOf(inv)
                /\ ~flags.stakeholder
                     => \A j \in 1..Len(peopleIndex') :
                          LET e == peopleIndex'[j]
                          IN IF Has(peopleIndex, e.email, emailOf)
                             THEN e.inferredRole =
                                    entryOf(peopleIndex, e.email, emailOf).inferredRole
                             ELSE /\ e.email \in participantsOf(inv.ingestionOutputs)
                                  /\ e.inferredRole = NULL
                                  /\ e.messageCount >= 1
                /\ ~flags.memory
                     => /\ knowledgeUpdates' = knowledgeUpdates
                        /\ status'.results = status.results
                        /\ \A j \in 1..Len(topicIndex) :
                             topicIndex'[j] =
                               [topicIndex[j] EXCEPT
                                  !.isConflicting = topicIndex'[j].isConflicting]
                        /\ \A j \in 1..Len(topicIndex') :
                             j > Len(topicIndex)
                               => topicIndex'[j].confidence = PlaceholderConfidence
                /\ ~flags.critic
                     => /\ conflicts' = conflicts
                        /\ \A j \in 1..Len(topicIndex') :
                             topicIndex'[j].isConflicting
                               => \/ /\ j <= Len(topicIndex)
                                     /\ topicIndex[j].isConflicting
                                  \/ \E u \in Range(memoryOf(inv.resultMap).updates) :
                                       /\ u.topic = topicIndex'[j].topic
                                       /\ u.changeType = "conflict"]_vars

\* the second batch of a run was applied with the stakeholder stage alone,
\* on a store in which the first had flagged a topic as conflicting
C18_Witness ==
  /\ event = "coordinatorReturns"
  /\ status.batches = 2
  /\ latestAgentSnapshot # NULL
  /\ latestAgentSnapshot[1].selectedAgents = <<"stakeholder">>
  /\ statusIn(latestAgentSnapshot[1], "critic") = "skipped"
  /\ Len(topicIndex) = 1
  /\ topicIndex[1].isConflicting
  /\ conflicts # <<>>
  /\ decisionLog # <<>>

\* the interaction count the people index holds for email, 0 if none
countOf(people, email) ==
  IF Has(people, email, emailOf) THEN entryOf(people, email, emailOf).messageCount
  ELSE 0

\* C19: when the routing call returns with all four flags false the
\* synthesis call is the next and only call issued; and the step in which
\* it returns applies the batch: batches and processed grow and errors does
\* not, the snapshot shows knowledge, stakeholder, memory and audit as
\* skipped and synthesis as ran, the topic index and the conflict, decision
\* and knowledge-change logs are as before, recommendations are the
\* synthesis output, and the interaction count of every participant of the
\* parsed messages is larger than before.
C19_NothingSelected ==
  /\ [][(event' = "triageReturns" /\ Len(active') = 1
           /\ \A k \in Range(AgentKeys) : ~flagsOf(active'[1])[k])
          => inFlightOf(active'[1]) = {"coordinator"}]_vars
  /\ [][(event' = "coordinatorReturns"
           /\ \A k \in Range(AgentKeys) : ~flagsOf(active[1])[k])
          => LET inv == active[1]
                 snap == latestAgentSnapshot'[1]
                 last == applied'[Len(applied')]
             IN /\ status'.batches = status.batches + 1
                /\ status'.processed = status.processed + Len(inv.batch)
                /\ status'.errors = status.errors
                /\ Len(applied') = Len(applied) + 1
                /\ \A k \in Range(AgentKeys) : statusIn(snap, k) = "skipped"
                /\ snap.selectedAgents = <<>>
                /\ snap.skippedAgents = AgentKeys
                /\ \E a \in Range(snap.agents) :
                     a.name = "Coordinator" /\ a.status = "ran"
                       /\ a.output = last.coordinator
                /\ topicIndex' = topicIndex
                /\ conflicts' = conflicts
                /\ decisionLog' = decisionLog
                /\ knowledgeUpdates' = knowledgeUpdates
                /\ recommendations' = Some(last.coordinator)
                /\ Len(inv.ingestionOutputs) = Len(inv.batch)
                /\ \A e \in participantsOf(inv.ingestionOutputs) :
                     e # "" => countOf(peopleIndex', e) > countOf(peopleIndex, e)]_vars

\* the second batch of a run was applied with no stage selected, on a store
\* that the first batch had filled
C19_Witness ==
  /\ event = "coordinatorReturns"
  /\ status.batches = 2
  /\ latestAgentSnapshot # NULL
  /\ latestAgentSnapshot[1].selectedAgents = <<>>
  /\ \A k \in Range(AgentKeys) : statusIn(latestAgentSnapshot[1], k) = "skipped"
  /\ topicIndex # <<>>
  /\ conflicts # <<>>
  /\ countOf(peopleIndex, "a") >= 2
  /\ countOf(peopleIndex, "b") >= 2

(* ---------------------------------------------------------------------- *)
(* Conflicts on topics that are not indexed                                *)
(* ---------------------------------------------------------------------- *)
\* the topic keys present when the conflicts of a batch are applied: those
\* indexed before the batch, those the analysis stage named and those the
\* memory stage updated (lines 528-559 run before line 561)
keysBeforeConflicts(inv) ==
  keysOf(topicIndex, topicOf)
    \cup Range(knowledgeOf(inv.resultMap).topics)
    \cup updatedTopicsOf(inv)

\* C20: in the step that applies a batch, the conflicts the audit stage
\* reported go to the front of the conflict log, the last reported first,
\* ahead of the entries the log held; and for a conflict whose topic is not
\* a key when the conflicts are applied, the topic index has no entry for
\* it afterwards, and every entry that the batch's memory stage did not
\* write is as it was before the batch or, if new, an unflagged
\* placeholder.
C20_ConflictOnAbsentTopic ==
  [][event' = "coordinatorReturns"
       => LET inv == active[1]
              cs == inv.critic.conflicts
          IN /\ Len(conflicts') = Len(cs) + Len(conflicts)
             /\ SubSeq(conflicts', Len(cs) + 1, Len(conflicts')) = conflicts
             /\ \A n \in 1..Len(cs) :
                  /\ conflicts'[Len(cs) - n + 1] =
                       [topic |-> cs[n].topic, description |-> cs[n].description]
                  /\ cs[n].topic \notin keysBeforeConflicts(inv)
                       => /\ cs[n].topic \notin keysOf(topicIndex', topicOf)
                          /\ keysOf(topicIndex', topicOf) = keysBeforeConflicts(inv)
             /\ (\A n \in 1..Len(cs) : cs[n].topic \notin keysBeforeConflicts(inv))
                  => \A j \in 1..Len(topicIndex') :
                       \/ topicIndex'[j].topic \in updatedTopicsOf(inv)
                       \/ /\ j <= Len(topicIndex)
                          /\ topicIndex'[j] = topicIndex[j]
                       \/ /\ j > Len(topicIndex)
                          /\ topicIndex'[j].confidence = PlaceholderConfidence
                          /\ ~topicIndex'[j].isConflicting]_vars

\* a batch that selected the audit stage alone was applied on a store that
\* indexes one topic, and its conflict names another
C20_Witness ==
  /\ event = "coordinatorReturns"
  /\ status.batches = 2
  /\ latestAgentSnapshot # NULL
  /\ latestAgentSnapshot[1].selectedAgents = <<"critic">>
  /\ conflicts = <<[topic |-> "t2", description |-> "x"]>>
  /\ keysOf(topicIndex, topicOf) = {"t1"}
  /\ ~topicIndex[1].isConflicting

(* ---------------------------------------------------------------------- *)
(* The record reader                                                       *)
(* ---------------------------------------------------------------------- *)
\* C26: for every source length the reader resolves with the first
\* min(limit, length) rows in source order, never more than limit; the
\* step that delivers them is taken once per run, while the read is
\* pending, and leaves those rows, in order, as the first slice followed
\* by the queue, with status.queued the number of rows not in that slice.
C26_ReaderKeepsLimit ==
  /\ [](\A n \in 0..MaxSource :
          /\ Len(readFirstNRecords(n, limit)) <= limit
          /\ readFirstNRecords(n, limit) = [k \in 1..Min(limit, n) |-> k])
  /\ [](starting = "reading"
          => \A n \in 0..MaxSource :
               /\ ENABLED readResolves(n)
               /\ ~ENABLED (/\ readResolves(n)
                            /\ ~(/\ loaded' = Some(Min(limit, n))
                                 /\ recordsOf(handed') \o queue' =
                                      [k \in 1..Min(limit, n) |-> k]
                                 /\ status'.queued = Len(queue')
                                 /\ status'.queued + Len(recordsOf(handed'))
                                      = Min(limit, n))))
  /\ [][event' = "readResolves"
          => /\ starting = "reading"
             /\ starting' # "reading"
             /\ loaded = NULL
             /\ loaded' # NULL
             /\ loaded'[1] <= limit
             /\ Len(handed') <= 1]_vars
  /\ [][(loaded # NULL /\ loaded' # NULL) => loaded' = loaded]_vars

\* the read is pending with limit 2, and the delivery of a source of four
\* rows leaves two records: one in the first slice, one queued
C26_Witness ==
  /\ starting = "reading"
  /\ limit = 2
  /\ batchSize = 1
  /\ ENABLED (/\ readResolves(4)
              /\ loaded' = Some(2)
              /\ Len(handed') = 1
              /\ queue' = <<2>>)

(* ---------------------------------------------------------------------- *)
(* Keys and batch numbers over a run                                       *)
(* ---------------------------------------------------------------------- *)
\* C24: every step other than an accepted startProcessing call keeps every
\* key of the people index and of the topic index, at its position; a step
\* that drops a key is a startProcessing call made while the phase is not
\* running, and it empties both indexes.
C24_KeysOnlyGrow ==
  /\ [][~(event' = "startProcessing" /\ status.status # "running")
          => /\ Len(peopleIndex') >= Len(peopleIndex)
             /\ \A j \in 1..Len(peopleIndex) :
                  peopleIndex'[j].email = peopleIndex[j].email
             /\ Len(topicIndex') >= Len(topicIndex)
             /\ \A j \in 1..Len(topicIndex) :
                  topicIndex'[j].topic = topicIndex[j].topic]_vars
  /\ [][(~(keysOf(peopleIndex, emailOf) \subseteq keysOf(peopleIndex', emailOf))
           \/ ~(keysOf(topicIndex, topicOf) \subseteq keysOf(topicIndex', topicOf)))
          => /\ event' = "startProcessing"
             /\ status.status \in {"completed", "error"}
             /\ peopleIndex' = <<>>
             /\ topicIndex' = <<>>]_vars
  /\ [](status.status = "running"
          => /\ Cardinality(keysOf(peopleIndex, emailOf)) = Len(peopleIndex)
             /\ Cardinality(keysOf(topicIndex, topicOf)) = Len(topicIndex))

\* the second batch of a run selected no stage, and the person that only
\* the stakeholder stage of the first batch named is still indexed
C24_Witness ==
  /\ status.status = "running"
  /\ status.batches = 2
  /\ latestAgentSnapshot # NULL
  /\ latestAgentSnapshot[1].selectedAgents = <<>>
  /\ keysOf(peopleIndex, emailOf) = {"a", "b", "c"}
  /\ keysOf(topicIndex, topicOf) = {"t1"}

\* C25: the slices a run hands out are stamped 1 for the first and, for
\* each later one, a number larger than that of every earlier slice of the
\* run, a failed one included.
C25_SequenceNumbers ==
  /\ (handed # <<>> => handed[1].batchNumber = 1)
  /\ \A j, k \in 1..Len(handed) :
       j < k => handed[j].batchNumber < handed[k].batchNumber

(* ---------------------------------------------------------------------- *)
(* People: parse results with repeated and empty addresses, two synthesis  *)
(* results                                                                 *)
(* ---------------------------------------------------------------------- *)
\* results of the parsing capability: a plain message, one that lists a
\* recipient twice, and one whose sender is also a recipient and whose
\* recipient list holds an empty address (IngestionSchema)
PeopleIngestionResults ==
  {[from |-> "a", to |-> <<"b">>, timestamp |-> "t", body |-> "x"],
   [from |-> "c", to |-> <<"b", "b">>, timestamp |-> "t", body |-> "x"],
   [from |-> "b", to |-> <<"b", "">>, timestamp |-> "t", body |-> "x"]}

\* results of the synthesis capability (CoordinatorSchema)
PeopleCoordinatorResults ==
  CoordinatorResults \cup
    {[executiveBrief |-> "brief2", notify |-> <<>>, priorityItems |-> <<"p2", "p3">>]}

PeopleIngestionReturns ==
  \E i \in 1..Len(active) : \E out \in PeopleIngestionResults :
    ingestionReturns(i, out)

PeopleCoordinatorReturns ==
  \E i \in 1..Len(active) : \E out \in PeopleCoordinatorResults :
    coordinatorReturns(i, out)

\* batches of the largest size
DataInit == Init /\ batchSize = MaxBatchSize /\ limit <= MaxDataLimit

\* lines 108-117, for at most MaxDataRuns accepted calls
DataStartProcessing == startProcessing /\ runs' <= MaxDataRuns

PeopleNext ==
  \/ DataStartProcessing
  \/ ReadResolves
  \/ ReadRejects
  \/ Tick
  \/ PeopleIngestionReturns
  \/ TriageReturns
  \/ AgentReturns
  \/ AgentFails
  \/ CriticReturns
  \/ PeopleCoordinatorReturns
  \/ CapabilityFails
  \/ OrphanSettles

\* batches of one size, small enough for a run of three batches
PeopleInit == Init /\ batchSize = MaxPeopleBatch /\ limit <= MaxDataLimit

PeopleSpec == PeopleInit /\ [][PeopleNext]_vars

(* ---------------------------------------------------------------------- *)
(* getPeople (lines 83-85)                                                 *)
(* ---------------------------------------------------------------------- *)
\* an entry put behind the entries sorted so far, whatever its count
insertByCountLast(sorted, p) == Append(sorted, p)
\* line 84: the comparator b.messageCount - a.messageCount puts p behind
\* the entries whose count is not smaller (Array.prototype.sort is stable)
insertByCount(sorted, p) ==
  LET k == Cardinality({j \in 1..Len(sorted) :
                          sorted[j].messageCount >= p.messageCount})
  IN Take(sorted, k) \o <<p>> \o Drop(sorted, k)

RECURSIVE sortByCount(_, _)
sortByCount(sorted, rest) ==
  IF rest = <<>> THEN sorted
  ELSE sortByCount(insertByCount(sorted, Head(rest)), Tail(rest))

\* lines 83-85: the values of the people index, sorted
getPeople(people) == sortByCount(<<>>, people)

(* ---------------------------------------------------------------------- *)
(* Message counts                                                          *)
(* ---------------------------------------------------------------------- *)
\* the parsed messages of the batches applied in this run
RECURSIVE messagesOf(_)
messagesOf(batches) ==
  IF batches = <<>> THEN <<>>
  ELSE Head(batches).ingestionOutputs \o messagesOf(Tail(batches))

\* the number of the messages msgs that name e as sender or as a recipient
namedIn(msgs, e) ==
  Cardinality({j \in 1..Len(msgs) :
                 msgs[j].from = e \/ e \in Range(msgs[j].to)})

\* the addresses the capabilities of this specification can name
Addresses == {"a", "b", "c"}

\* C22: between batches, the count of every participant is the number of
\* parsed messages of the applied batches that name the participant as
\* sender or recipient, a message counting once however often it names
\* the participant.
C22_CountsMessages ==
  active = <<>>
    => \A e \in Addresses :
         countOf(peopleIndex, e) = namedIn(messagesOf(applied), e)

\* C23: in every step other than an accepted start, no entry of the people
\* index leaves it and no count becomes smaller; so between any two
\* observation points of a run the later count is at least the earlier.
C23_CountsOnlyGrow ==
  [][~(event' = "startProcessing" /\ status.status # "running")
       => /\ \A e \in keysOf(peopleIndex, emailOf) :
               /\ e \in keysOf(peopleIndex', emailOf)
               /\ countOf(peopleIndex', e) >= countOf(peopleIndex, e)
          /\ \A e \in Addresses :
               countOf(peopleIndex', e) >= countOf(peopleIndex, e)]_vars

\* the second batch of a run named, in its stakeholder stage, a person the
\* first batch had counted, and the count is still there
C23_Witness ==
  /\ event = "coordinatorReturns"
  /\ status.batches = 2
  /\ Len(applied) = 2
  /\ applied[1].stakeholder.stakeholders = <<>>
  /\ applied[2].stakeholder.stakeholders # <<>>
  /\ namedIn(applied[1].ingestionOutputs, "c") > 0
  /\ namedIn(applied[2].ingestionOutputs, "c") = 0
  /\ countOf(peopleIndex, "c") >= 1

(* ---------------------------------------------------------------------- *)
(* Recommendations                                                         *)
(* ---------------------------------------------------------------------- *)
\* C27: the step that applies a batch leaves that batch's synthesis output
\* as the recommendations; a step that ends a batch in failure leaves the
\* recommendations as they were; hence they are always the synthesis
\* output of the latest applied batch of the run, or null if none was
\* applied.
C27_LatestSynthesis ==
  /\ [][event' = "coordinatorReturns"
          => \E out \in PeopleCoordinatorResults :
               /\ applied' = Append(applied, applied'[Len(applied')])
               /\ applied'[Len(applied')].coordinator = out
               /\ recommendations' = Some(out)]_vars
  /\ [][batchFailed(event') => recommendations' = recommendations]_vars
  /\ [](recommendations =
          IF applied = <<>> THEN NULL
          ELSE Some(applied[Len(applied)].coordinator))

\* a batch failed after two batches with different synthesis outputs had
\* been applied
C27_Witness ==
  /\ batchFailed(event)
  /\ Len(applied) = 2
  /\ applied[1].coordinator # applied[2].coordinator
  /\ recommendations = Some(applied[2].coordinator)

\* C28: getPeople returns the entries of the people index, each once,
\* every entry followed by one whose count is not larger.
C28_PeopleSorted ==
  LET result == getPeople(peopleIndex)
  IN /\ Len(result) = Len(peopleIndex)
     /\ \A j \in 1..Len(peopleIndex) :
          Cardinality({k \in 1..Len(result) : result[k] = peopleIndex[j]}) = 1
     /\ \A k \in 1..Len(result) - 1 :
          result[k].messageCount >= result[k + 1].messageCount

\* three people are indexed, the one counted most is not the first, and
\* two have the same count
C28_Witness ==
  /\ Len(peopleIndex) = 3
  /\ peopleIndex[1].messageCount < peopleIndex[2].messageCount
  /\ peopleIndex[1].messageCount = peopleIndex[3].messageCount
  /\ getPeople(peopleIndex) = <<peopleIndex[2], peopleIndex[1], peopleIndex[3]>>

(* ---------------------------------------------------------------------- *)
(* Statuses of the snapshot                                                *)
(* ---------------------------------------------------------------------- *)
\* the status the snapshot snap shows for the stage called name
statusOf(snap, name) ==
  (CHOOSE a \in Range(snap.agents) : a.name = name).status

\* C29: in the snapshot a batch leaves, the audit stage is conflict exactly
\* when it was selected and reported a conflict, ran exactly when it was
\* selected and reported none, skipped exactly when it was not selected;
\* each of knowledge, stakeholder and memory is ran exactly when selected
\* and skipped otherwise; parsing, routing and synthesis are ran.
C29_SnapshotStatuses ==
  [][event' = "coordinatorReturns"
       => LET inv == active[1]
              flags == flagsOf(inv)
              snap == latestAgentSnapshot'[1]
              found == Len(inv.critic.conflicts) > 0
          IN /\ Len(snap.agents) = 7
             /\ statusOf(snap, "Critic") = "conflict" <=> (flags.critic /\ found)
             /\ statusOf(snap, "Critic") = "ran" <=> (flags.critic /\ ~found)
             /\ statusOf(snap, "Critic") = "skipped" <=> ~flags.critic
             /\ \A k \in FanOutStages :
                  /\ statusOf(snap, agentNameOf(k)) = "ran" <=> flags[k]
                  /\ statusOf(snap, agentNameOf(k)) = "skipped" <=> ~flags[k]
             /\ statusOf(snap, "Ingestion") = "ran"
             /\ statusOf(snap, "Triage") = "ran"
             /\ statusOf(snap, "Coordinator") = "ran"]_vars

\* a batch was applied whose audit stage was selected and reported no
\* conflict, next to a skipped memory stage
C29_Witness ==
  /\ event = "coordinatorReturns"
  /\ latestAgentSnapshot # NULL
  /\ Includes(latestAgentSnapshot[1].selectedAgents, "critic")
  /\ statusOf(latestAgentSnapshot[1], "Critic") = "ran"
  /\ statusOf(latestAgentSnapshot[1], "Memory") = "skipped"
  /\ statusOf(latestAgentSnapshot[1], "Knowledge") = "ran"

(* ---------------------------------------------------------------------- *)
(* Topics: memory results of every change type                             *)
(* ---------------------------------------------------------------------- *)
\* results of the memory capability: one event of each change type for the
\* topic the analysis stage names, two events for it in one result, and an
\* event for another topic (MemorySchema)
TopicMemoryResults ==
  {[updates |-> <<[topic |-> "t1", changeType |-> "new", summary |-> "s1"]>>],
   [updates |-> <<[topic |-> "t1", changeType |-> "conflict", summary |-> "s2"]>>],
   [updates |-> <<[topic |-> "t1", changeType |-> "update", summary |-> "s3"],
                  [topic |-> "t1", changeType |-> "new", summary |-> "s4"]>>],
   [updates |-> <<[topic |-> "t2", changeType |-> "update", summary |-> "s5"]>>]}

\* routing decisions: no stage, the memory stage alone, memory with audit,
\* every stage
TopicTriageResults ==
  {[runAgents |-> [k \in Range(AgentKeys) |-> k \in sel], reasoning |-> "why"] :
     sel \in {{}, {"memory"}, {"memory", "critic"},
              {"knowledge", "stakeholder", "memory", "critic"}}}

TopicFanOutResults(stage) ==
  IF stage = "memory" THEN TopicMemoryResults ELSE FanOutResults(stage)

TopicTriageReturns ==
  \E i \in 1..Len(active) : \E out \in TopicTriageResults : triageReturns(i, out)

TopicAgentReturns ==
  \E i \in 1..Len(active) : \E stage \in FanOutStages :
    \E out \in TopicFanOutResults(stage) : agentReturns(i, stage, out)

TopicNext ==
  \/ DataStartProcessing
  \/ ReadResolves
  \/ ReadRejects
  \/ Tick
  \/ IngestionReturns
  \/ TopicTriageReturns
  \/ TopicAgentReturns
  \/ AgentFails
  \/ RouteCriticReturns
  \/ CoordinatorReturns
  \/ CapabilityFails
  \/ OrphanSettles

TopicSpec == DataInit /\ [][TopicNext]_vars

\* the knowledge-change events the memory stage reported in a batch that
\* name topic t, in the order of the report
eventsFor(batch, t) ==
  SelectSeq(batch.memory.updates, LAMBDA u : u.topic = t)

\* the applied batches whose memory stage named topic t
batchesFor(t) == {b \in 1..Len(applied) : eventsFor(applied[b], t) # <<>>}

\* the last applied batch whose memory stage named topic t
lastBatchFor(t) == CHOOSE b \in batchesFor(t) : \A o \in batchesFor(t) : o <= b

\* the most recent knowledge-change event applied for topic t
lastEventFor(t) ==
  LET events == eventsFor(applied[lastBatchFor(t)], t) IN events[Len(events)]

\* an audit conflict on topic t was applied in batch b or a later one
auditedSince(t, b) ==
  \E o \in b..Len(applied) :
    \E c \in Range(applied[o].critic.conflicts) : c.topic = t

\* the topics the capabilities of this specification can name
Topics == {"t1", "t2"}

\* C21 as stated: between batches, the entry of every topic for which an
\* event was applied has the summary, the confidence and both flags of the
\* most recent event, and nothing else.
C21_LatestEventOnly ==
  active = <<>>
    => \A t \in Topics :
         batchesFor(t) # {}
           => /\ Has(topicIndex, t, topicOf)
              /\ LET e == entryOf(topicIndex, t, topicOf)
                     u == lastEventFor(t)
                 IN /\ e.latestSummary = u.summary
                    /\ e.confidence = topicEntryOf(u).confidence
                    /\ e.isNew = (u.changeType = "new")
                    /\ e.isConflicting = (u.changeType = "conflict")

\* C21, amended: the summary, the confidence and isNew of the entry are
\* those of the most recent event for the key alone; isConflicting is true
\* exactly when that event is of type conflict or an audit conflict on the
\* key was applied in the batch of that event or a later one.
C21_LatestEventAndAudit ==
  \A t \in Topics :
    batchesFor(t) # {}
      => /\ Has(topicIndex, t, topicOf)
         /\ LET e == entryOf(topicIndex, t, topicOf)
                u == lastEventFor(t)
            IN /\ e.latestSummary = u.summary
               /\ e.confidence = topicEntryOf(u).confidence
               /\ e.isNew = (u.changeType = "new")
               /\ e.isConflicting <=>
                    (u.changeType = "conflict" \/ auditedSince(t, lastBatchFor(t)))

\* two batches were applied: the first reported a conflict event for t1,
\* the second an update and then a new event for it, and its audit stage a
\* conflict on t1; the entry is that of the last event, flagged by the audit
C21_Witness ==
  /\ active = <<>>
  /\ Len(applied) = 2
  /\ Len(eventsFor(applied[1], "t1")) = 1
  /\ eventsFor(applied[1], "t1")[1].changeType = "conflict"
  /\ Len(eventsFor(applied[2], "t1")) = 2
  /\ lastEventFor("t1").changeType = "new"
  /\ auditedSince("t1", 2)
  /\ entryOf(topicIndex, "t1", topicOf).latestSummary = "s4"
  /\ entryOf(topicIndex, "t1", topicOf).isNew
  /\ entryOf(topicIndex, "t1", topicOf).isConflicting

\* the topic index after the memory loop of the batch of invocation inv,
\* before its conflicts are applied (lines 528-559)
afterMemory(inv) ==
  applyMemoryTopics(applyTopics(topicIndex, knowledgeOf(inv.resultMap).topics),
                    memoryOf(inv.resultMap).updates)

\* the last event for topic t among updates
lastOf(updates, t) ==
  LET events == SelectSeq(updates, LAMBDA u : u.topic = t)
  IN events[Len(events)]

\* C30: when a batch is applied, the memory loop leaves for every key it
\* names an entry with the summary of the key's last event and 0.4,
\* conflicting, not new for type conflict; 0.75, new, not conflicting for
\* new; 0.6 with both flags false for update; the index the batch leaves
\* differs from that only in conflict flags, and an entry the batch
\* created without an event is a new placeholder of 0.5; every entry ever
\* stored carries one of 0.4, 0.5, 0.6, 0.75 (in hundredths), with the
\* flags of its type, so every confidence is within [0,1].
C30_Confidences ==
  /\ [][event' = "coordinatorReturns"
          => LET inv == active[1]
                 mid == afterMemory(inv)
             IN /\ \A t \in updatedTopicsOf(inv) :
                     /\ Has(mid, t, topicOf)
                     /\ LET e == entryOf(mid, t, topicOf)
                            u == lastOf(memoryOf(inv.resultMap).updates, t)
                        IN /\ e.latestSummary = u.summary
                           /\ u.changeType = "conflict"
                                => e.confidence = 40 /\ e.isConflicting /\ ~e.isNew
                           /\ u.changeType = "new"
                                => e.confidence = 75 /\ e.isNew /\ ~e.isConflicting
                           /\ u.changeType = "update"
                                => e.confidence = 60 /\ ~e.isNew /\ ~e.isConflicting
                /\ Len(topicIndex') = Len(mid)
                /\ \A j \in 1..Len(mid) :
                     mid[j] = [topicIndex'[j] EXCEPT !.isConflicting = mid[j].isConflicting]
                /\ \A j \in 1..Len(mid) :
                     (j > Len(topicIndex) /\ mid[j].topic \notin updatedTopicsOf(inv))
                       => mid[j].confidence = 50 /\ mid[j].isNew]_vars
  /\ [](\A j \in 1..Len(topicIndex) :
          LET e == topicIndex[j]
          IN /\ e.confidence \in {40, 50, 60, 75}
             /\ e.confidence >= 0 /\ e.confidence <= 100
             /\ e.confidence = 40 => (e.isConflicting /\ ~e.isNew)
             /\ e.confidence \in {50, 75} => e.isNew
             /\ e.confidence = 60 => ~e.isNew)

\* a batch was applied on an index that held a placeholder for t1 and an
\* entry of type update for t2; it overwrote t1 with a conflict event
C30_Witness ==
  /\ event = "coordinatorReturns"
  /\ Len(applied) = 2
  /\ Len(topicIndex) = 2
  /\ applied[1].knowledge.topics = <<"t1">>
  /\ eventsFor(applied[1], "t2") # <<>>
  /\ lastOf(applied[1].memory.updates, "t2").changeType = "update"
  /\ eventsFor(applied[2], "t1") # <<>>
  /\ lastEventFor("t1").changeType = "conflict"
  /\ entryOf(topicIndex, "t1", topicOf).confidence = 40
  /\ entryOf(topicIndex, "t2", topicOf).confidence = 60

(* ---------------------------------------------------------------------- *)
(* New and conflicting at once                                             *)
(* ---------------------------------------------------------------------- *)
\* the entry e is flagged new and conflicting
bothFlags(e) == e.isNew /\ e.isConflicting

\* C31: an audit conflict on a topic whose entry is new after the memory
\* loop of the same batch leaves the entry new and conflicting; an entry
\* with both flags got them that way (a placeholder or a last event of
\* type new, and an audit conflict on the key since); and it keeps both
\* flags in every step that is neither an accepted start nor the
\* application of a batch with an event for its key.
C31_NewAndConflicting ==
  /\ [][event' = "coordinatorReturns"
          => LET inv == active[1]
                 mid == afterMemory(inv)
             IN \A c \in Range(inv.critic.conflicts) :
                  (Has(mid, c.topic, topicOf) /\ entryOf(mid, c.topic, topicOf).isNew)
                    => /\ Has(topicIndex', c.topic, topicOf)
                       /\ bothFlags(entryOf(topicIndex', c.topic, topicOf))]_vars
  /\ [](\A j \in 1..Len(topicIndex) :
          bothFlags(topicIndex[j])
            => LET t == topicIndex[j].topic
               IN IF batchesFor(t) = {}
                  THEN /\ topicIndex[j].confidence = PlaceholderConfidence
                       /\ auditedSince(t, 1)
                  ELSE /\ lastEventFor(t).changeType = "new"
                       /\ auditedSince(t, lastBatchFor(t)))
  /\ [][\A j \in 1..Len(topicIndex) :
          bothFlags(topicIndex[j])
            => \/ event' = "startProcessing" /\ status.status # "running"
               \/ /\ event' = "coordinatorReturns"
                  /\ topicIndex[j].topic \in updatedTopicsOf(active[1])
               \/ /\ j <= Len(topicIndex')
                  /\ topicIndex'[j] = topicIndex[j]]_vars

\* the first batch of a run left a placeholder for t1 that its audit stage
\* flagged; the second batch had no event for t1 and no conflict, and the
\* entry still carries both flags
C31_Witness ==
  /\ Len(applied) = 2
  /\ batchesFor("t1") = {}
  /\ applied[1].knowledge.topics = <<"t1">>
  /\ auditedSince("t1", 1)
  /\ ~auditedSince("t1", 2)
  /\ Has(topicIndex, "t1", topicOf)
  /\ bothFlags(entryOf(topicIndex, "t1", topicOf))
  /\ entryOf(topicIndex, "t1", topicOf).confidence = PlaceholderConfidence

(* ---------------------------------------------------------------------- *)
(* Order of the steps of one application                                   *)
(* ---------------------------------------------------------------------- *)
\* C32: in the step that applies a batch, (1) an audit conflict on a topic
\* that is a key once the placeholders and the events of the batch are
\* written, one created by the same batch included, leaves the entry
\* conflicting; (2) a topic the analysis stage names that was indexed
\* before is not overwritten by a placeholder, and one for which the batch
\* has an event carries the event's summary; (3) among the entries the
\* batch adds, those of participants precede those of people only the
\* stakeholder stage names, and placeholders precede entries only events
\* create.
C32_StepsInOrder ==
  [][event' = "coordinatorReturns"
       => LET inv == active[1]
              named == Range(knowledgeOf(inv.resultMap).topics)
              events == memoryOf(inv.resultMap).updates
              parts == participantsOf(inv.ingestionOutputs) \ {""}
          IN /\ \A c \in Range(inv.critic.conflicts) :
                  c.topic \in keysBeforeConflicts(inv)
                    => /\ Has(topicIndex', c.topic, topicOf)
                       /\ entryOf(topicIndex', c.topic, topicOf).isConflicting
             /\ \A t \in named :
                  /\ Has(topicIndex', t, topicOf)
                  /\ (Has(topicIndex, t, topicOf) /\ t \notin updatedTopicsOf(inv))
                       => entryOf(topicIndex, t, topicOf) =
                            [entryOf(topicIndex', t, topicOf) EXCEPT
                               !.isConflicting =
                                  entryOf(topicIndex, t, topicOf).isConflicting]
                  /\ t \in updatedTopicsOf(inv)
                       => entryOf(topicIndex', t, topicOf).latestSummary =
                            lastOf(events, t).summary
             /\ \A j, k \in Len(peopleIndex) + 1..Len(peopleIndex') :
                  (j < k /\ peopleIndex'[k].email \in parts)
                    => peopleIndex'[j].email \in parts
             /\ \A j, k \in Len(topicIndex) + 1..Len(topicIndex') :
                  (j < k /\ topicIndex'[k].topic \in named)
                    => topicIndex'[j].topic \in named]_vars

\* the first batch of a run created t1 by a placeholder and t2 by an
\* event, and its audit stage named t2: the entry the event created is
\* conflicting, behind the placeholder
C32_Witness ==
  /\ event = "coordinatorReturns"
  /\ Len(applied) = 1
  /\ applied[1].knowledge.topics = <<"t1">>
  /\ eventsFor(applied[1], "t2") # <<>>
  /\ auditedSince("t2", 1)
  /\ Len(topicIndex) = 2
  /\ topicIndex[1].topic = "t1"
  /\ ~topicIndex[1].isConflicting
  /\ topicIndex[2].topic = "t2"
  /\ topicIndex[2].isConflicting
  /\ keysOf(peopleIndex, emailOf) = {"a", "b", "c"}

(* ---------------------------------------------------------------------- *)
(* Stakeholders                                                            *)
(* ---------------------------------------------------------------------- *)
\* the people index after the people step of the batch of invocation inv,
\* before its stakeholders are applied (lines 494-511)
afterPeople(inv) == applyIngestion(peopleIndex, inv.ingestionOutputs)

\* C33: in the step that applies a batch, for every stakeholder the
\* stakeholder stage names: the entry has the declared importance as
\* inferredRole; if the people step left an entry for the person, its
\* messageCount, name and topics are those the people step left; if it
\* left none, the entry is new, with messageCount 0, no name and no
\* topics. Every other entry is as the people step left it.
C33_StakeholderStep ==
  [][event' = "coordinatorReturns"
       => LET inv == active[1]
              mid == afterPeople(inv)
              named == Range(stakeholderOf(inv.resultMap).stakeholders)
          IN /\ \A x \in named :
                  /\ Has(peopleIndex', x.email, emailOf)
                  /\ LET e == entryOf(peopleIndex', x.email, emailOf)
                     IN /\ e.inferredRole = Some(x.importance)
                        /\ IF Has(mid, x.email, emailOf)
                           THEN e = [entryOf(mid, x.email, emailOf) EXCEPT
                                       !.inferredRole = Some(x.importance)]
                           ELSE /\ e.messageCount = 0
                                /\ e.name = NULL
                                /\ e.topics = <<>>
                                /\ ~Has(peopleIndex, x.email, emailOf)
             /\ \A j \in 1..Len(mid) :
                  mid[j].email \notin {x.email : x \in named}
                    => peopleIndex'[j] = mid[j]]_vars

\* the second batch of a run named as stakeholder a person that the first
\* had counted once as a sender, and that the second did not mention
C33_Witness ==
  /\ event = "coordinatorReturns"
  /\ Len(applied) = 2
  /\ applied[1].stakeholder.stakeholders = <<>>
  /\ namedIn(applied[1].ingestionOutputs, "c") > 0
  /\ applied[2].stakeholder.stakeholders # <<>>
  /\ namedIn(applied[2].ingestionOutputs, "c") = 0
  /\ countOf(peopleIndex, "c") = 1
  /\ entryOf(peopleIndex, "c", emailOf).inferredRole = Some("high")

(* ---------------------------------------------------------------------- *)
(* Flow: analysis results with no, one and two topics, messages with       *)
(* several recipients                                                      *)
(* ---------------------------------------------------------------------- *)
\* results of the analysis capability (KnowledgeSchema)
FlowKnowledgeResults ==
  KnowledgeResults \cup
    {EmptyKnowledge,
     [topics |-> <<"t2", "t1">>, decisions |-> <<"d2", "d3">>, facts |-> <<>>]}

\* routing decisions: no stage, or the analysis stage alone
FlowTriageResults ==
  {[runAgents |-> [k \in Range(AgentKeys) |-> k \in sel], reasoning |-> "why"] :
     sel \in {{}, {"knowledge"}}}

FlowTriageReturns ==
  \E i \in 1..Len(active) : \E out \in FlowTriageResults : triageReturns(i, out)

FlowAgentReturns ==
  \E i \in 1..Len(active) : \E out \in FlowKnowledgeResults :
    agentReturns(i, "knowledge", out)

FlowAgentFails == \E i \in 1..Len(active) : agentFails(i, "knowledge")

FlowNext ==
  \/ DataStartProcessing
  \/ ReadResolves
  \/ ReadRejects
  \/ Tick
  \/ PeopleIngestionReturns
  \/ FlowTriageReturns
  \/ FlowAgentReturns
  \/ FlowAgentFails
  \/ CoordinatorReturns
  \/ CapabilityFails

FlowSpec == DataInit /\ [][FlowNext]_vars

\* the number of recipients of the first m of the messages msgs
RECURSIVE recipientsOf(_, _)
recipientsOf(msgs, m) ==
  IF m = 0 THEN 0 ELSE recipientsOf(msgs, m - 1) + Len(msgs[m].to)

\* C34: the step that applies a batch puts in front of the information-flow
\* log, which it leaves unchanged behind them, one edge per entry of the
\* recipient list of each parsed message, in the order of the messages and
\* of their recipients: from the sender to that recipient, with the first
\* topic the analysis stage reported, or "general" if it reported none or
\* did not run, and intent inform; every edge of the log has intent inform.
C34_FlowEdges ==
  /\ [][event' = "coordinatorReturns"
          => LET inv == active[1]
                 msgs == inv.ingestionOutputs
                 n == recipientsOf(msgs, Len(msgs))
                 label == IF inv.resultMap.knowledge = NULL THEN "general"
                          ELSE IF inv.resultMap.knowledge[1].topics = <<>> THEN "general"
                          ELSE inv.resultMap.knowledge[1].topics[1]
             IN /\ Len(informationFlow') = n + Len(informationFlow)
                /\ SubSeq(informationFlow', n + 1, Len(informationFlow')) = informationFlow
                /\ \A m \in 1..Len(msgs) : \A r \in 1..Len(msgs[m].to) :
                     informationFlow'[recipientsOf(msgs, m - 1) + r] =
                       [from |-> msgs[m].from, to |-> msgs[m].to[r],
                        topic |-> label, intent |-> "inform"]]_vars
  /\ [](\A j \in 1..Len(informationFlow) : informationFlow[j].intent = "inform")

\* the first batch of a run, whose analysis stage did not run, logged
\* three edges for its two messages; the second, whose analysis stage
\* reported two topics, put the edges of its message in front of them
C34_Witness ==
  /\ event = "coordinatorReturns"
  /\ Len(applied) = 2
  /\ applied[1].knowledge = EmptyKnowledge
  /\ Len(applied[2].knowledge.topics) = 2
  /\ Len(applied[1].ingestionOutputs) = 2
  /\ Len(applied[1].ingestionOutputs[1].to) = 2
  /\ Len(applied[1].ingestionOutputs[2].to) = 1
  /\ Len(applied[2].ingestionOutputs) = 1
  /\ Len(informationFlow) = 3 + Len(applied[2].ingestionOutputs[1].to)
  /\ informationFlow[1].topic = "t2"
  /\ informationFlow[Len(informationFlow)].topic = "general"

(* ---------------------------------------------------------------------- *)
(* Logs                                                                    *)
(* ---------------------------------------------------------------------- *)
\* log was extended at the front only: what it held is the tail of next
extendsAtFront(log, next) ==
  /\ Len(next) >= Len(log)
  /\ SubSeq(next, Len(next) - Len(log) + 1, Len(next)) = log

\* the conflicts the applied batches b..Len(applied) reported, those of
\* the latest batch first and, within a batch, the last reported first
RECURSIVE conflictsSince(_)
conflictsSince(b) ==
  IF b > Len(applied) THEN <<>>
  ELSE conflictsSince(b + 1) \o
         [n \in 1..Len(applied[b].critic.conflicts) |->
            LET c == applied[b].critic.conflicts[Len(applied[b].critic.conflicts) - n + 1]
            IN [topic |-> c.topic, description |-> c.description]]

\* the same for the knowledge-change events
RECURSIVE updatesSince(_)
updatesSince(b) ==
  IF b > Len(applied) THEN <<>>
  ELSE updatesSince(b + 1) \o
         [n \in 1..Len(applied[b].memory.updates) |->
            applied[b].memory.updates[Len(applied[b].memory.updates) - n + 1]]

\* the decisions of the applied batches b..Len(applied), those of the
\* latest batch first, in the order of the report within a batch
RECURSIVE decisionsSince(_)
decisionsSince(b) ==
  IF b > Len(applied) THEN <<>>
  ELSE decisionsSince(b + 1) \o applied[b].knowledge.decisions

\* C35: in every step other than an accepted start, each of the four logs
\* keeps what it held, unchanged and in order, behind whatever the step
\* puts in front; and each log is, batch by batch, what the applied
\* batches of the run reported, the entries of a later batch in front of
\* those of every earlier one.
C35_LogsGrowAtFront ==
  /\ [][~(event' = "startProcessing" /\ status.status # "running")
          => /\ extendsAtFront(conflicts, conflicts')
             /\ extendsAtFront(decisionLog, decisionLog')
             /\ extendsAtFront(knowledgeUpdates, knowledgeUpdates')
             /\ extendsAtFront(informationFlow, informationFlow')]_vars
  /\ [](/\ conflicts = conflictsSince(1)
        /\ knowledgeUpdates = updatesSince(1)
        /\ decisionLog = decisionsSince(1)
        /\ Len(informationFlow) =
             recipientsOf(messagesOf(applied), Len(messagesOf(applied))))

\* two batches were applied that each reported a decision, a conflict and
\* knowledge-change events, the second two events: the entries of the
\* second are in front
C35_Witness ==
  /\ Len(applied) = 2
  /\ Len(applied[1].memory.updates) = 1
  /\ Len(applied[2].memory.updates) = 2
  /\ Len(knowledgeUpdates) = 3
  /\ knowledgeUpdates[1] = applied[2].memory.updates[2]
  /\ knowledgeUpdates[3] = applied[1].memory.updates[1]
  /\ Len(conflicts) = 2
  /\ conflicts[1].topic = "t1"
  /\ conflicts[2].topic = "t2"
  /\ Len(decisionLog) = 2
  /\ Len(informationFlow) = 3

(* ---------------------------------------------------------------------- *)
(* No partial batch                                                        *)
(* ---------------------------------------------------------------------- *)
\* C36: when the parse call of a record of a batch fails, the batch ends
\* there: no call of the batch is in flight afterwards, its records,
\* parsed or not, are in neither the queue nor a later slice, and the
\* store, the snapshot and the progress counters are as before the batch,
\* whatever parse results it had obtained; at all times the only batch
\* with calls awaited is the slice taken last, and every batch that was
\* applied had a parse result for each of its records.
C36_NoPartialBatch ==
  /\ [][(event' = "capabilityFails" /\ Len(active) = 1
           /\ active[1].pc = "ingestion")
          => LET inv == active[1]
             IN /\ active' = <<>>
                /\ \A c \in callsInFlight' :
                     ~(c.run = inv.run /\ c.slice = inv.slice)
                /\ Range(inv.batch) \cap Range(queue') = {}
                /\ handed' = handed
                /\ peopleIndex' = peopleIndex
                /\ Store' = inv.pre.store
                /\ latestAgentSnapshot' = inv.pre.snapshot
                /\ applied' = applied
                /\ status'.processed = inv.pre.processed
                /\ status'.batches = inv.pre.batches
                /\ status'.errors = status.errors + 1]_vars
  /\ [](\A k \in 1..Len(active) :
          /\ active[k].slice = Len(handed)
          /\ active[k].batch = handed[Len(handed)].batch
          /\ Len(active[k].ingestionOutputs) <= Len(active[k].batch)
          /\ active[k].pc # "ingestion"
               => Len(active[k].ingestionOutputs) = Len(active[k].batch))
  /\ [](\A b \in 1..Len(applied) :
          Len(applied[b].ingestionOutputs) = Len(handed[applied[b].slice].batch))

\* the first record of a batch of two is parsed, the parse call of the
\* second is in flight and can fail, which ends the batch and leaves the
\* people index empty
C36_Witness ==
  /\ Len(active) = 1
  /\ active[1].pc = "ingestion"
  /\ Len(active[1].batch) = 2
  /\ Len(active[1].ingestionOutputs) = 1
  /\ queue # <<>>
  /\ ENABLED (capabilityFails(1) /\ active' = <<>> /\ peopleIndex' = <<>>
                /\ status'.status = "running")

(* ---------------------------------------------------------------------- *)
(* Record conservation                                                     *)
(* ---------------------------------------------------------------------- *)
\* the slices of the run that were applied, and those in progress
appliedSlices == {applied[b].slice : b \in 1..Len(applied)}
activeSlices == {active[i].slice : i \in 1..Len(active)}

\* the slices of the run that ended in the catch block
failedSlices == (1..Len(handed)) \ (appliedSlices \cup activeSlices)

\* the number of records of the slices k..Len(handed) that are in set
RECURSIVE sizeOf(_, _)
sizeOf(set, k) ==
  IF k > Len(handed) THEN 0
  ELSE (IF k \in set THEN Len(handed[k].batch) ELSE 0) + sizeOf(set, k + 1)

\* C37: once the source is loaded, status.queued is the length of the queue
\* and the records loaded are those queued, those processed, those of the
\* batch in progress and those of the batches that failed.
C37_RecordConservation ==
  loaded # NULL
    => /\ status.queued = Len(queue)
       /\ loaded[1] = status.queued + status.processed
                        + sizeOf(activeSlices, 1) + sizeOf(failedSlices, 1)

\* a batch of two records has failed, one of one record is in progress
C37_Witness ==
  /\ loaded = Some(3)
  /\ status.errors = 1
  /\ status.processed = 0
  /\ status.queued = 0
  /\ sizeOf(failedSlices, 1) = 2
  /\ sizeOf(activeSlices, 1) = 1
  /\ batchInProgress

\* C38: whenever no batch is in progress, status.batches + status.errors is
\* the number of slices taken from the queue in the run; and a run that
\* completed after loading n records took ceil(n / batchSize) slices.
C38_BatchesAndErrors ==
  ~batchInProgress
    => /\ status.batches + status.errors = Len(handed)
       /\ (status.status = "completed" /\ loaded # NULL)
            => status.batches + status.errors = Ceil(loaded[1], batchSize)

\* a run of three batches of one record completed with one failure
C38_Witness ==
  /\ status.status = "completed"
  /\ loaded = Some(3)
  /\ batchSize = 1
  /\ status.errors = 1
  /\ status.batches = 2
  /\ Len(handed) = 3

(* ---------------------------------------------------------------------- *)
(* The in-progress flag                                                    *)
(* ---------------------------------------------------------------------- *)
\* C39: the flag is set only while the run is running; the step in which
\* the run becomes completed leaves the flag false; every step that ends
\* a batch, applied or failed at whatever stage, leaves the flag false;
\* and after a failed batch, while records are queued, the next tick takes
\* a slice.
C39_FlagReleased ==
  /\ [](batchInProgress => status.status = "running")
  /\ [][(status'.status = "completed" /\ status.status # "completed")
          => ~batchInProgress']_vars
  /\ [][batchEnded(event') => ~batchInProgress']_vars
  /\ []((batchFailed(event) /\ queue # <<>>)
          => /\ ~batchInProgress
             /\ status.status = "running"
             /\ intervals # {}
             /\ \A t \in intervals :
                  ENABLED (tick(t) /\ batchInProgress'
                             /\ Len(handed') = Len(handed) + 1))

\* a fan-out stage of the first batch failed with records still queued
C39_Witness ==
  /\ event = "agentFails"
  /\ queue # <<>>
  /\ ~batchInProgress
  /\ status.errors = 1
  /\ Len(handed) = 1
  /\ orphans # {}

(* ---------------------------------------------------------------------- *)
(* Knowledge-change log and topic index                                    *)
(* ---------------------------------------------------------------------- *)
\* C40: between batches, every topic an event of the knowledge-change log
\* names is a key of the topic index, the entry's latestSummary is the
\* summary of the frontmost event of the log with that key, and
\* status.results is the length of the log.
C40_LogAndIndexAgree ==
  active = <<>>
    => /\ status.results = Len(knowledgeUpdates)
       /\ \A j \in 1..Len(knowledgeUpdates) :
            LET t == knowledgeUpdates[j].topic
            IN /\ Has(topicIndex, t, topicOf)
               /\ (\A k \in 1..(j - 1) : knowledgeUpdates[k].topic # t)
                    => entryOf(topicIndex, t, topicOf).latestSummary =
                         knowledgeUpdates[j].summary

\* two batches with events for t1 were applied, the second with two of
\* them; the entry has the summary of the frontmost of the three
C40_Witness ==
  /\ active = <<>>
  /\ Len(applied) = 2
  /\ status.results = 3
  /\ Len(knowledgeUpdates) = 3
  /\ \A j \in 1..3 : knowledgeUpdates[j].topic = "t1"
  /\ knowledgeUpdates[1].summary = "s4"
  /\ entryOf(topicIndex, "t1", topicOf).latestSummary = "s4"
  /\ knowledgeUpdates[3].summary # "s4"

====
